---------------------------- MODULE Spec2Model ----------------------------
(***************************************************************************)
(* A model of the mei archive codec (src/src/lib.rs): the byte-level       *)
(* framing primitives, the AEAD chunk layer, the encoder (Encode::new,     *)
(* write_directory, write_file) and the pull-style decoder (Decode::new,   *)
(* read_path, read_file).                                                  *)
(*                                                                         *)
(* Bytes are the naturals 0..255, the sink and the source are sequences of *)
(* bytes.  A reader is a pair (src, pos): pos bytes of src are consumed.   *)
(* The three external libraries are modelled by what the code relies on:   *)
(*   - scrypt: an injective key derivation with a parameter domain,        *)
(*   - AES-256-GCM: an ideal AEAD (a ciphertext verifies only under the    *)
(*     key and nonce it was sealed with; 16 bytes of tag are appended),    *)
(*   - brotli: a lossless streaming codec (a run-length code with an end   *)
(*     marker stands for it; its output length differs from its input's).  *)
(***************************************************************************)
EXTENDS Naturals, Sequences, FiniteSets, TLC

(***************************************************************************)
(* Bytes and fixed-width integers                                          *)
(***************************************************************************)
Byte == 0..255

Rep(b, k) == [i \in 1..k |-> b]

\* (len as u16).to_be_bytes()
u16_to_be_bytes(n) == <<(n % 65536) \div 256, n % 256>>

\* u16::from_be_bytes
u16_from_be_bytes(b) == 256 * b[1] + b[2]

\* A u32 is kept as its two 16-bit halves (hi, lo): value 65536 * hi + lo.
U32(hi, lo) == [hi |-> hi, lo |-> lo]

\* u32::to_be_bytes
u32_to_be_bytes(x) == u16_to_be_bytes(x.hi) \o u16_to_be_bytes(x.lo)

\* A variant of u32::from_be_bytes: the bytes in little-endian order.
u32_from_le_bytes(b) == U32(b[4] * 256 + b[3], b[2] * 256 + b[1])

\* u32::from_be_bytes
u32_from_be_bytes(b) == U32(256 * b[1] + b[2], 256 * b[3] + b[4])

\* One bit of a byte flipped (bit 0 is the least significant).
Pow2(k) == CASE k = 0 -> 1 [] k = 1 -> 2 [] k = 2 -> 4 [] k = 3 -> 8
             [] k = 4 -> 16 [] k = 5 -> 32 [] k = 6 -> 64 [] OTHER -> 128

FlipBit(b, k) == IF (b \div Pow2(k)) % 2 = 1 THEN b - Pow2(k) ELSE b + Pow2(k)

(***************************************************************************)
(* String::from_utf8: the bytes are kept, the result is an error unless    *)
(* they are well-formed UTF-8 (RFC 3629: no overlong forms, no surrogates, *)
(* nothing above U+10FFFF).                                                *)
(***************************************************************************)
IsCont(s, i) == i <= Len(s) /\ s[i] >= 128 /\ s[i] <= 191

RECURSIVE Utf8From(_, _)
Utf8From(s, i) ==
    IF i > Len(s) THEN TRUE
    ELSE LET b == s[i] IN
         CASE b <= 127 -> Utf8From(s, i + 1)
           [] b >= 194 /\ b <= 223 -> IsCont(s, i + 1) /\ Utf8From(s, i + 2)
           [] b = 224 -> /\ IsCont(s, i + 1) /\ s[i + 1] >= 160
                         /\ IsCont(s, i + 2) /\ Utf8From(s, i + 3)
           [] (b >= 225 /\ b <= 236) \/ b = 238 \/ b = 239 ->
                         /\ IsCont(s, i + 1) /\ IsCont(s, i + 2)
                         /\ Utf8From(s, i + 3)
           [] b = 237 -> /\ IsCont(s, i + 1) /\ s[i + 1] <= 159
                         /\ IsCont(s, i + 2) /\ Utf8From(s, i + 3)
           [] b = 240 -> /\ IsCont(s, i + 1) /\ s[i + 1] >= 144
                         /\ IsCont(s, i + 2) /\ IsCont(s, i + 3)
                         /\ Utf8From(s, i + 4)
           [] b >= 241 /\ b <= 243 ->
                         /\ IsCont(s, i + 1) /\ IsCont(s, i + 2)
                         /\ IsCont(s, i + 3) /\ Utf8From(s, i + 4)
           [] b = 244 -> /\ IsCont(s, i + 1) /\ s[i + 1] <= 143
                         /\ IsCont(s, i + 2) /\ IsCont(s, i + 3)
                         /\ Utf8From(s, i + 4)
           [] OTHER -> FALSE

from_utf8_ok(s) == (\A i \in 1..Len(s) : s[i] <= 127) \/ Utf8From(s, 1)

(***************************************************************************)
(* Read::read_exact on a reader (s, ps): n bytes or UnexpectedEof.  A      *)
(* failed read_exact has consumed what was left (std's default_read_exact, *)
(* which File and BufReader<File> use).                                    *)
(***************************************************************************)
read_exact(s, ps, n) ==
    IF ps + n <= Len(s)
    THEN [err |-> "none", val |-> SubSeq(s, ps + 1, ps + n), pos |-> ps + n]
    ELSE [err |-> "UnexpectedEof", val |-> <<>>, pos |-> Len(s)]

(***************************************************************************)
(* Framing primitives                                                      *)
(***************************************************************************)
HEAD == <<109, 101, 105>>

VERSION == <<1>>

ENCRYPT_NONE == <<0>>

ENCRYPT_AES_256_GCM == <<1>>

FileType_DIRECTORY == 0

FileType_FILE == 1

U16_MAX == 65535

SALT_LEN == 16

NONCE_LEN == 12

read_head(s, ps) ==
    LET r == read_exact(s, ps, 3) IN
    IF r.err # "none" THEN [err |-> "IO(UnexpectedEof)", pos |-> r.pos]
    ELSE IF r.val # HEAD THEN [err |-> "InvalidHead", pos |-> r.pos]
    ELSE [err |-> "none", pos |-> r.pos]

write_head == HEAD

\* A variant of read_version: any version byte is accepted.
read_version_any(s, ps) ==
    LET r == read_exact(s, ps, 1) IN
    IF r.err # "none" THEN [err |-> "IO(UnexpectedEof)", pos |-> r.pos]
    ELSE [err |-> "none", pos |-> r.pos]

read_version(s, ps) ==
    LET r == read_exact(s, ps, 1) IN
    IF r.err # "none" THEN [err |-> "IO(UnexpectedEof)", pos |-> r.pos]
    ELSE IF r.val # VERSION THEN [err |-> "InvalidVersion", pos |-> r.pos]
    ELSE [err |-> "none", pos |-> r.pos]

write_version == VERSION

\* Option<ScryptParams> / Option<Password>: "some" tells Some from None.
NoParams == [some |-> FALSE, salt |-> <<>>, n |-> 0, r |-> U32(0, 0), p |-> U32(0, 0)]

SomeParams(salt, n, r, p) == [some |-> TRUE, salt |-> salt, n |-> n, r |-> r, p |-> p]

\* A variant of read_scrypt_option: a salt of 17 bytes.
read_scrypt_option_salt17(s, ps) ==
    LET t == read_exact(s, ps, 1) IN
    IF t.err # "none"
    THEN [err |-> "IO(UnexpectedEof)", pos |-> t.pos, params |-> NoParams]
    ELSE IF t.val = ENCRYPT_NONE
    THEN [err |-> "none", pos |-> t.pos, params |-> NoParams]
    ELSE IF t.val = ENCRYPT_AES_256_GCM
    THEN LET sa == read_exact(s, t.pos, SALT_LEN + 1)
             n == read_exact(s, sa.pos, 1)
             r == read_exact(s, n.pos, 4)
             p == read_exact(s, r.pos, 4)
         IN IF sa.err # "none" \/ n.err # "none" \/ r.err # "none" \/ p.err # "none"
            THEN [err |-> "IO(UnexpectedEof)", pos |-> Len(s), params |-> NoParams]
            ELSE [err |-> "none", pos |-> p.pos,
                  params |-> SomeParams(SubSeq(sa.val, 1, SALT_LEN), n.val[1],
                                        u32_from_be_bytes(r.val), u32_from_be_bytes(p.val))]
    ELSE [err |-> "InvalidEncryptMethod", pos |-> t.pos, params |-> NoParams]

read_scrypt_option(s, ps) ==
    LET t == read_exact(s, ps, 1) IN
    IF t.err # "none"
    THEN [err |-> "IO(UnexpectedEof)", pos |-> t.pos, params |-> NoParams]
    ELSE IF t.val = ENCRYPT_NONE
    THEN [err |-> "none", pos |-> t.pos, params |-> NoParams]
    ELSE IF t.val = ENCRYPT_AES_256_GCM
    THEN LET sa == read_exact(s, t.pos, SALT_LEN)
             n == read_exact(s, sa.pos, 1)
             r == read_exact(s, n.pos, 4)
             p == read_exact(s, r.pos, 4)
         IN IF sa.err # "none"
            THEN [err |-> "IO(UnexpectedEof)", pos |-> sa.pos, params |-> NoParams]
            ELSE IF n.err # "none"
            THEN [err |-> "IO(UnexpectedEof)", pos |-> n.pos, params |-> NoParams]
            ELSE IF r.err # "none"
            THEN [err |-> "IO(UnexpectedEof)", pos |-> r.pos, params |-> NoParams]
            ELSE IF p.err # "none"
            THEN [err |-> "IO(UnexpectedEof)", pos |-> p.pos, params |-> NoParams]
            ELSE [err |-> "none", pos |-> p.pos,
                  params |-> SomeParams(sa.val, n.val[1], u32_from_be_bytes(r.val),
                                        u32_from_be_bytes(p.val))]
    ELSE [err |-> "InvalidEncryptMethod", pos |-> t.pos, params |-> NoParams]

\* A variant of write_scrypt_params: no tag byte for None.
write_scrypt_params_no_tag(params) ==
    IF params.some
    THEN ENCRYPT_AES_256_GCM \o params.salt \o <<params.n>>
           \o u32_to_be_bytes(params.r) \o u32_to_be_bytes(params.p)
    ELSE <<>>

write_scrypt_params(params) ==
    IF params.some
    THEN ENCRYPT_AES_256_GCM \o params.salt \o <<params.n>>
           \o u32_to_be_bytes(params.r) \o u32_to_be_bytes(params.p)
    ELSE ENCRYPT_NONE

read_chunk(s, ps) ==
    LET l == read_exact(s, ps, 2) IN
    IF l.err # "none" THEN [err |-> "UnexpectedEof", val |-> <<>>, pos |-> l.pos]
    ELSE LET b == read_exact(s, l.pos, u16_from_be_bytes(l.val)) IN
         IF b.err # "none" THEN [err |-> "UnexpectedEof", val |-> <<>>, pos |-> b.pos]
         ELSE [err |-> "none", val |-> b.val, pos |-> b.pos]

\* A variant of write_chunk: the length in little-endian order.
write_chunk_le(buf) ==
    IF Len(buf) > U16_MAX THEN [err |-> "ChunkTooLong", out |-> <<>>]
    ELSE [err |-> "none", out |-> <<Len(buf) % 256, Len(buf) \div 256>> \o buf]

\* The bytes the sink receives and the error, if any.
write_chunk(buf) ==
    IF Len(buf) > U16_MAX THEN [err |-> "ChunkTooLong", out |-> <<>>]
    ELSE [err |-> "none", out |-> u16_to_be_bytes(Len(buf)) \o buf]

read_chunk_to_string(s, ps) ==
    LET c == read_chunk(s, ps) IN
    IF c.err # "none" THEN [err |-> "IO(UnexpectedEof)", val |-> <<>>, pos |-> c.pos]
    ELSE IF ~from_utf8_ok(c.val) THEN [err |-> "Utf8", val |-> <<>>, pos |-> c.pos]
    ELSE [err |-> "none", val |-> c.val, pos |-> c.pos]

read_nonce(s, ps) == read_exact(s, ps, NONCE_LEN)


(***************************************************************************)
(* The state.                                                              *)
(*   wire      the bytes the encoder's sink has received                   *)
(*   encSt     "none" before Encode::new, "open" once it returned Ok,      *)
(*             "failed" once it returned Err                               *)
(*   enc       the Encode value: its cipher and its CompressParams         *)
(*   encRes    what Encode::new returned and the arguments it was given    *)
(*   written   one record per write_directory / write_file call, in order  *)
(*   sealed    every (key, nonce, ciphertext) the AEAD has produced        *)
(*   nonceLog  the nonces drawn, in order                                  *)
(*   src, pos  the decoder's source and the number of bytes consumed       *)
(*   tamper    how src differs from the encoder's bytes                    *)
(*   decSt     "none", "ready" (a source is chosen), "open" (Decode::new   *)
(*             returned Ok), "failed" (it returned Err)                    *)
(*   dec       the Decode value: its cipher and its info string            *)
(*   decRes    what Decode::new returned and the password it was given     *)
(*   calls     one record per read_path / read_file call, in order         *)
(***************************************************************************)
VARIABLES wire, encSt, enc, encRes, written, sealed, nonceLog,
          src, pos, tamper, decSt, dec, decRes, calls

vars == <<wire, encSt, enc, encRes, written, sealed, nonceLog,
          src, pos, tamper, decSt, dec, decRes, calls>>

RECURSIVE Pow2N(_)
Pow2N(e) == IF e = 0 THEN 1 ELSE 2 * Pow2N(e - 1)

(***************************************************************************)
(* scrypt::ScryptParams::new(log_n, r, p): the parameter domain.           *)
(*   r > 0, p > 0, log_n < 64, r * p < 2^30, log_n < 16 * r, and           *)
(*   128 * r * 2^log_n fits a 64-bit usize.                                *)
(***************************************************************************)
ScryptParamsOk(n, r, p) ==
    /\ r.hi > 0 \/ r.lo > 0
    /\ p.hi > 0 \/ p.lo > 0
    /\ n < 64
    /\ r.hi < 16384 /\ p.hi < 16384
    /\ (r.hi * 65536 + r.lo) <= 1073741823 \div (p.hi * 65536 + p.lo)
    /\ r.hi > 0 \/ n < 16 * r.lo
    /\ 57 - n >= 30 \/ (n <= 56 /\ (r.hi * 65536 + r.lo) < Pow2N(57 - n))

\* Option<Aes256Gcm>
NoCipher == [some |-> FALSE, key |-> <<>>]

\* fn cipher(pw): the key is scrypt(password, salt, n, r, p), an injective
\* derivation: the key is the tuple of what it was derived from.
cipher(key, params) ==
    IF ScryptParamsOk(params.n, params.r, params.p)
    THEN [err |-> "none",
          cipher |-> [some |-> TRUE,
                      key |-> <<key, params.salt, params.n, params.r, params.p>>]]
    ELSE [err |-> "InvalidParams", cipher |-> NoCipher]

(***************************************************************************)
(* AES-256-GCM, ideal.  encrypt returns |pt| masked bytes and 16 bytes of  *)
(* tag; decrypt succeeds exactly on a ciphertext that was sealed under the *)
(* same key and nonce, and then returns the plaintext.                     *)
(***************************************************************************)
RECURSIVE SumSeq(_)
SumSeq(s) == IF s = <<>> THEN 0 ELSE (Head(s) + SumSeq(Tail(s))) % 256

KeyNum(k) == (SumSeq(k[1]) + SumSeq(k[2]) + k[3] + k[4].lo + k[5].lo) % 256

Pad(k, nonce, i) == (KeyNum(k) + nonce[1] + nonce[NONCE_LEN] + i) % 256

Tag(k, nonce, body) ==
    <<KeyNum(k), Len(body) % 256, body[1], body[Len(body)]>> \o nonce

Aead_encrypt(k, nonce, pt) ==
    LET body == [i \in 1..Len(pt) |-> (pt[i] + Pad(k, nonce, i)) % 256]
    IN body \o Tag(k, nonce, body)

Aead_decrypt(k, nonce, data) ==
    IF [key |-> k, nonce |-> nonce, data |-> data] \in sealed
    THEN [ok |-> TRUE,
          val |-> [i \in 1..(Len(data) - 16) |->
                     (data[i] + 256 - Pad(k, nonce, i)) % 256]]
    ELSE [ok |-> FALSE, val |-> <<>>]

\* A variant of read_encrypt_chunk: a failed decryption reads as Ok(None).
read_encrypt_chunk_lenient(s, ps, ciph) ==
    LET c == read_chunk(s, ps) IN
    IF c.err # "none" \/ c.val = <<>>
    THEN [err |-> "none", some |-> FALSE, val |-> <<>>, pos |-> c.pos]
    ELSE LET nn == read_nonce(s, c.pos) IN
         IF nn.err # "none"
         THEN [err |-> "IO(UnexpectedEof)", some |-> FALSE, val |-> <<>>, pos |-> nn.pos]
         ELSE LET d == Aead_decrypt(ciph.key, nn.val, c.val) IN
              [err |-> "none", some |-> d.ok, val |-> d.val, pos |-> nn.pos]

(***************************************************************************)
(* The AEAD chunk layer                                                    *)
(***************************************************************************)
read_encrypt_chunk(s, ps, ciph) ==
    LET c == read_chunk(s, ps) IN
    IF c.err # "none" \/ c.val = <<>>
    THEN \* an empty chunk, or UnexpectedEof from read_chunk: Ok(None)
         [err |-> "none", some |-> FALSE, val |-> <<>>, pos |-> c.pos]
    ELSE LET nn == read_nonce(s, c.pos) IN
         IF nn.err # "none"
         THEN [err |-> "IO(UnexpectedEof)", some |-> FALSE, val |-> <<>>, pos |-> nn.pos]
         ELSE LET d == Aead_decrypt(ciph.key, nn.val, c.val) IN
              IF d.ok
              THEN [err |-> "none", some |-> TRUE, val |-> d.val, pos |-> nn.pos]
              ELSE [err |-> "DecryptionFailed", some |-> FALSE, val |-> <<>>,
                    pos |-> nn.pos]

\* A variant of write_encrypt_chunk: the nonce goes out before the chunk.
write_encrypt_chunk_nonce_first(ciph, nonce, buf) ==
    IF buf = <<>>
    THEN [err |-> write_chunk(<<>>).err, out |-> write_chunk(<<>>).out, seals |-> <<>>]
    ELSE LET data == Aead_encrypt(ciph.key, nonce, buf)
             wc == write_chunk(data)
             sl == <<[key |-> ciph.key, nonce |-> nonce, data |-> data]>>
         IN IF wc.err # "none"
            THEN [err |-> wc.err, out |-> <<>>, seals |-> sl]
            ELSE [err |-> "none", out |-> nonce \o wc.out, seals |-> sl]

\* out: the bytes the sink receives; seals: what the AEAD produced.
write_encrypt_chunk(ciph, nonce, buf) ==
    IF buf = <<>>
    THEN [err |-> write_chunk(<<>>).err, out |-> write_chunk(<<>>).out, seals |-> <<>>]
    ELSE LET data == Aead_encrypt(ciph.key, nonce, buf)
             wc == write_chunk(data)
             sl == <<[key |-> ciph.key, nonce |-> nonce, data |-> data]>>
         IN IF wc.err # "none"
            THEN [err |-> wc.err, out |-> <<>>, seals |-> sl]
            ELSE [err |-> "none", out |-> wc.out \o nonce, seals |-> sl]

(***************************************************************************)
(* brotli, as a lossless streaming codec.  The compressed stream is a      *)
(* sequence of (run length, byte) pairs closed by the end marker 0; the    *)
(* stream of the empty input is the end marker alone.                      *)
(***************************************************************************)
Min(a, b) == IF a <= b THEN a ELSE b

\* The last index of the run that starts at i0 (a run holds at most 127 bytes).
RECURSIVE RunEnd(_, _, _)
RunEnd(b, i0, i) ==
    IF i < Len(b) /\ b[i + 1] = b[i0] /\ i + 1 - i0 < 127 THEN RunEnd(b, i0, i + 1) ELSE i

RECURSIVE CompressFrom(_, _)
CompressFrom(b, i) ==
    IF i > Len(b) THEN <<0>>
    ELSE LET e == RunEnd(b, i, i) IN <<e - i + 1, b[i]>> \o CompressFrom(b, e + 1)

Brotli_compress(b) == CompressFrom(b, 1)

\* The decompressor after the bytes z: st is "more" (the stream is open),
\* "done" (the end marker was read) or "bad" (invalid data); out is what it
\* has written to its sink.
RECURSIVE DecompressFrom(_, _, _)
DecompressFrom(z, i, out) ==
    IF i > Len(z) THEN [st |-> "more", out |-> out]
    ELSE IF z[i] = 0 THEN [st |-> "done", out |-> out]
    ELSE IF z[i] > 127 THEN [st |-> "bad", out |-> out]
    ELSE IF i + 1 > Len(z) THEN [st |-> "more", out |-> out]
    ELSE DecompressFrom(z, i + 2, out \o Rep(z[i + 1], z[i]))

Brotli_decompress(z) == DecompressFrom(z, 1, <<>>)

\* The ways to cut z into non-empty pieces of at most bs bytes.
RECURSIVE Splits(_, _)
Splits(z, bs) ==
    IF z = <<>> THEN {<<>>}
    ELSE UNION {{<<SubSeq(z, 1, n)>> \o r : r \in Splits(SubSeq(z, n + 1, Len(z)), bs)} :
                  n \in 1..Min(bs, Len(z))}

\* What successive CompressorReader::read(&mut buf) calls can return for a
\* source holding b: each call Ok(n) with 1 <= n <= buf_size compressed
\* bytes, then Ok(0) at the end of the stream.  A source that fails with
\* error serr after delivering k bytes makes a read fail with that error,
\* after some of the compressed bytes of what was delivered.
ReadOk(d) == [err |-> "none", data |-> d]

CompressorReads(b, serr, k, bs) ==
    IF serr = "none"
    THEN {[i \in 1..(Len(sp) + 1) |-> IF i <= Len(sp) THEN ReadOk(sp[i]) ELSE ReadOk(<<>>)] :
            sp \in Splits(Brotli_compress(b), bs)}
    ELSE LET z == Brotli_compress(SubSeq(b, 1, k))
             body == SubSeq(z, 1, Len(z) - 1)
         IN UNION {{[i \in 1..(Len(sp) + 1) |->
                       IF i <= Len(sp) THEN ReadOk(sp[i]) ELSE [err |-> serr, data |-> <<>>]] :
                      sp \in Splits(SubSeq(body, 1, j), bs)} : j \in 0..Len(body)}

(***************************************************************************)
(* The encoder                                                             *)
(***************************************************************************)
\* Option<Password>
NoPassword == [some |-> FALSE, key |-> <<>>, params |-> NoParams]

Password(key, params) == [some |-> TRUE, key |-> key, params |-> params]

\* FileType::write
FileType_write(t) == IF t = "Directory" THEN <<FileType_DIRECTORY>> ELSE <<FileType_FILE>>

\* A variant of FileType::parse: the two tags exchanged.
FileType_parse_swapped(byte) ==
    IF byte = FileType_DIRECTORY THEN [err |-> "none", type |-> "File"]
    ELSE IF byte = FileType_FILE THEN [err |-> "none", type |-> "Directory"]
    ELSE [err |-> "FileType", type |-> "none"]

\* FileType::parse
FileType_parse(byte) ==
    IF byte = FileType_FILE THEN [err |-> "none", type |-> "File"]
    ELSE IF byte = FileType_DIRECTORY THEN [err |-> "none", type |-> "Directory"]
    ELSE [err |-> "FileType", type |-> "none"]

\* Encode::new: out is what reached the sink, also when an error follows.
Encode_new(info, password, buf_size) ==
    LET wc == write_chunk(info)
        pre == write_head \o write_version
        all == pre \o wc.out \o write_scrypt_params(password.params)
        c == IF password.some THEN cipher(password.key, password.params)
             ELSE [err |-> "none", cipher |-> NoCipher]
    IN IF wc.err # "none"
       THEN [err |-> wc.err, out |-> pre, cipher |-> NoCipher, buf_size |-> buf_size]
       ELSE IF c.err # "none"
       THEN [err |-> "InvalidScryptParams", out |-> all, cipher |-> NoCipher,
             buf_size |-> buf_size]
       ELSE [err |-> "none", out |-> all, cipher |-> c.cipher, buf_size |-> buf_size]

\* One chunk, by the branch of `match &self.cipher`.
put_chunk(ciph, nonce, buf) ==
    IF ciph.some THEN write_encrypt_chunk(ciph, nonce, buf)
    ELSE [err |-> write_chunk(buf).err, out |-> write_chunk(buf).out, seals |-> <<>>]

\* A variant of Encode::write_directory: a zero-length chunk follows the
\* path, as after a file.
write_directory_with_terminator(ciph, p, ns) ==
    LET t == FileType_write("Directory")
        w == put_chunk(ciph, IF ns = <<>> THEN <<>> ELSE ns[1], p)
    IN [err |-> w.err, out |-> t \o w.out \o <<0, 0>>, seals |-> w.seals, ret |-> 0]

\* Encode::write_directory; ns holds the nonces thread_rng will give.
write_directory(ciph, p, ns) ==
    LET t == FileType_write("Directory")
        w == put_chunk(ciph, IF ns = <<>> THEN <<>> ELSE ns[1], p)
    IN [err |-> w.err, out |-> t \o w.out, seals |-> w.seals, ret |-> 0]

\* A variant of the loop of Encode::write_file: `bytes` counts the reads,
\* not the bytes they returned.
RECURSIVE write_file_loop_count_reads(_, _, _, _, _)
write_file_loop_count_reads(ciph, reads, i, ns, acc) ==
    LET rd == reads[i]
        nonce == IF ns = <<>> THEN <<>> ELSE ns[1]
        w == IF rd.err = "none" /\ rd.data # <<>> THEN put_chunk(ciph, nonce, rd.data)
             ELSE put_chunk(ciph, <<>>, <<>>)
    IN IF rd.err = "none" /\ rd.data = <<>>
       THEN [err |-> w.err, out |-> acc.out \o w.out, seals |-> acc.seals, ret |-> acc.ret]
       ELSE IF rd.err = "none"
       THEN IF w.err # "none"
            THEN [err |-> w.err, out |-> acc.out \o w.out, seals |-> acc.seals \o w.seals,
                  ret |-> acc.ret + 1]
            ELSE write_file_loop_count_reads(ciph, reads, i + 1,
                                 IF ns = <<>> THEN <<>> ELSE Tail(ns),
                                 [out |-> acc.out \o w.out, seals |-> acc.seals \o w.seals,
                                  ret |-> acc.ret + 1])
       ELSE IF rd.err = "UnexpectedEof"
       THEN [err |-> w.err, out |-> acc.out \o w.out, seals |-> acc.seals, ret |-> acc.ret]
       ELSE [err |-> "IO(Other)", out |-> acc.out, seals |-> acc.seals, ret |-> acc.ret]

\* A variant of the loop of Encode::write_file: Ok(0) breaks without the
\* terminator chunk.
RECURSIVE write_file_loop_no_terminator(_, _, _, _, _)
write_file_loop_no_terminator(ciph, reads, i, ns, acc) ==
    LET rd == reads[i]
        nonce == IF ns = <<>> THEN <<>> ELSE ns[1]
        w == IF rd.err = "none" /\ rd.data # <<>> THEN put_chunk(ciph, nonce, rd.data)
             ELSE put_chunk(ciph, <<>>, <<>>)
    IN IF rd.err = "none" /\ rd.data = <<>>
       THEN [err |-> w.err, out |-> acc.out, seals |-> acc.seals, ret |-> acc.ret]
       ELSE IF rd.err = "none"
       THEN IF w.err # "none"
            THEN [err |-> w.err, out |-> acc.out \o w.out, seals |-> acc.seals \o w.seals,
                  ret |-> acc.ret + Len(rd.data)]
            ELSE write_file_loop_no_terminator(ciph, reads, i + 1,
                                 IF ns = <<>> THEN <<>> ELSE Tail(ns),
                                 [out |-> acc.out \o w.out, seals |-> acc.seals \o w.seals,
                                  ret |-> acc.ret + Len(rd.data)])
       ELSE IF rd.err = "UnexpectedEof"
       THEN [err |-> w.err, out |-> acc.out \o w.out, seals |-> acc.seals, ret |-> acc.ret]
       ELSE [err |-> "IO(Other)", out |-> acc.out, seals |-> acc.seals, ret |-> acc.ret]

\* A variant of the loop of Encode::write_file: every error of the source
\* is taken as the end of the file.
RECURSIVE write_file_loop_eof_any(_, _, _, _, _)
write_file_loop_eof_any(ciph, reads, i, ns, acc) ==
    LET rd == reads[i]
        nonce == IF ns = <<>> THEN <<>> ELSE ns[1]
        w == IF rd.err = "none" /\ rd.data # <<>> THEN put_chunk(ciph, nonce, rd.data)
             ELSE put_chunk(ciph, <<>>, <<>>)
    IN IF rd.err = "none" /\ rd.data = <<>>
       THEN [err |-> w.err, out |-> acc.out \o w.out, seals |-> acc.seals, ret |-> acc.ret]
       ELSE IF rd.err = "none"
       THEN IF w.err # "none"
            THEN [err |-> w.err, out |-> acc.out \o w.out, seals |-> acc.seals \o w.seals,
                  ret |-> acc.ret + Len(rd.data)]
            ELSE write_file_loop_eof_any(ciph, reads, i + 1,
                                 IF ns = <<>> THEN <<>> ELSE Tail(ns),
                                 [out |-> acc.out \o w.out, seals |-> acc.seals \o w.seals,
                                  ret |-> acc.ret + Len(rd.data)])
       ELSE IF TRUE
       THEN [err |-> w.err, out |-> acc.out \o w.out, seals |-> acc.seals, ret |-> acc.ret]
       ELSE [err |-> "IO(Other)", out |-> acc.out, seals |-> acc.seals, ret |-> acc.ret]

\* The `loop` of Encode::write_file from the i-th read on; acc is what the
\* earlier iterations wrote (out), sealed (seals) and counted (ret).
RECURSIVE write_file_loop(_, _, _, _, _)
write_file_loop(ciph, reads, i, ns, acc) ==
    LET rd == reads[i]
        nonce == IF ns = <<>> THEN <<>> ELSE ns[1]
        w == IF rd.err = "none" /\ rd.data # <<>> THEN put_chunk(ciph, nonce, rd.data)
             ELSE put_chunk(ciph, <<>>, <<>>)
    IN IF rd.err = "none" /\ rd.data = <<>>
       THEN \* Ok(0): the terminator, break
            [err |-> w.err, out |-> acc.out \o w.out, seals |-> acc.seals, ret |-> acc.ret]
       ELSE IF rd.err = "none"
       THEN \* Ok(n): bytes += n, one data chunk
            IF w.err # "none"
            THEN [err |-> w.err, out |-> acc.out \o w.out, seals |-> acc.seals \o w.seals,
                  ret |-> acc.ret + Len(rd.data)]
            ELSE write_file_loop(ciph, reads, i + 1, IF ns = <<>> THEN <<>> ELSE Tail(ns),
                                 [out |-> acc.out \o w.out, seals |-> acc.seals \o w.seals,
                                  ret |-> acc.ret + Len(rd.data)])
       ELSE IF rd.err = "UnexpectedEof"
       THEN \* the terminator, break
            [err |-> w.err, out |-> acc.out \o w.out, seals |-> acc.seals, ret |-> acc.ret]
       ELSE [err |-> "IO(Other)", out |-> acc.out, seals |-> acc.seals, ret |-> acc.ret]

\* A variant of Encode::write_file: the data chunks start with the nonce
\* the path chunk used.
write_file_reuse_nonce(ciph, p, reads, ns) ==
    LET t == FileType_write("File")
        w == put_chunk(ciph, IF ns = <<>> THEN <<>> ELSE ns[1], p)
    IN IF w.err # "none"
       THEN [err |-> w.err, out |-> t \o w.out, seals |-> w.seals, ret |-> 0]
       ELSE write_file_loop(ciph, reads, 1, ns,
                            [out |-> t \o w.out, seals |-> w.seals, ret |-> 0])

\* Encode::write_file: reads is what the CompressorReader returns, call by
\* call; ret is the value of `bytes` when the function returns.
write_file(ciph, p, reads, ns) ==
    LET t == FileType_write("File")
        usesNonce == ciph.some /\ p # <<>>
        w == put_chunk(ciph, IF ns = <<>> THEN <<>> ELSE ns[1], p)
    IN IF w.err # "none"
       THEN [err |-> w.err, out |-> t \o w.out, seals |-> w.seals, ret |-> 0]
       ELSE write_file_loop(ciph, reads, 1, IF usesNonce THEN Tail(ns) ELSE ns,
                            [out |-> t \o w.out, seals |-> w.seals, ret |-> 0])

\* The number of nonces a write call draws.
NoncesNeeded(ciph, p, reads) ==
    IF ciph.some
    THEN (IF p = <<>> THEN 0 ELSE 1)
         + Cardinality({i \in 1..Len(reads) : reads[i].err = "none" /\ reads[i].data # <<>>})
    ELSE 0

(***************************************************************************)
(* The decoder                                                             *)
(***************************************************************************)
\* A variant of Decode::new: without the (params, password) match.
Decode_new_unchecked(s, password) ==
    LET h == read_head(s, 0)
        v == read_version(s, h.pos)
        i == read_chunk_to_string(s, v.pos)
        sp == read_scrypt_option(s, i.pos)
        c == IF password.some /\ sp.params.some
             THEN cipher(password.key, sp.params)
             ELSE [err |-> "none", cipher |-> NoCipher]
        Fail(e, at) == [err |-> e, pos |-> at, cipher |-> NoCipher, info |-> <<>>]
    IN IF h.err # "none" THEN Fail(h.err, h.pos)
       ELSE IF v.err # "none" THEN Fail(v.err, v.pos)
       ELSE IF i.err # "none" THEN Fail(i.err, i.pos)
       ELSE IF sp.err # "none" THEN Fail(sp.err, sp.pos)
       ELSE IF c.err # "none" THEN Fail("InvalidScryptParams", sp.pos)
       ELSE [err |-> "none", pos |-> sp.pos, cipher |-> c.cipher, info |-> i.val]

\* A variant of Decode::new: the key is derived from the parameters before
\* the password is looked at.
Decode_new_key_first(s, password) ==
    LET h == read_head(s, 0)
        v == read_version(s, h.pos)
        i == read_chunk_to_string(s, v.pos)
        sp == read_scrypt_option(s, i.pos)
        c == IF sp.params.some
             THEN cipher(password.key, sp.params)
             ELSE [err |-> "none", cipher |-> NoCipher]
        Fail(e, at) == [err |-> e, pos |-> at, cipher |-> NoCipher, info |-> <<>>]
    IN IF h.err # "none" THEN Fail(h.err, h.pos)
       ELSE IF v.err # "none" THEN Fail(v.err, v.pos)
       ELSE IF i.err # "none" THEN Fail(i.err, i.pos)
       ELSE IF sp.err # "none" THEN Fail(sp.err, sp.pos)
       ELSE IF c.err # "none" THEN Fail("InvalidScryptParams", sp.pos)
       ELSE IF sp.params.some /\ ~password.some THEN Fail("PasswordRequired", sp.pos)
       ELSE IF ~sp.params.some /\ password.some THEN Fail("NoPasswordRequired", sp.pos)
       ELSE [err |-> "none", pos |-> sp.pos, cipher |-> c.cipher, info |-> i.val]

\* Decode::new(reader, password, buf_size)
Decode_new(s, password) ==
    LET h == read_head(s, 0)
        v == read_version(s, h.pos)
        i == read_chunk_to_string(s, v.pos)
        sp == read_scrypt_option(s, i.pos)
        c == IF password.some /\ sp.params.some
             THEN cipher(password.key, sp.params)
             ELSE [err |-> "none", cipher |-> NoCipher]
        Fail(e, at) == [err |-> e, pos |-> at, cipher |-> NoCipher, info |-> <<>>]
    IN IF h.err # "none" THEN Fail(h.err, h.pos)
       ELSE IF v.err # "none" THEN Fail(v.err, v.pos)
       ELSE IF i.err # "none" THEN Fail(i.err, i.pos)
       ELSE IF sp.err # "none" THEN Fail(sp.err, sp.pos)
       ELSE IF sp.params.some /\ ~password.some THEN Fail("PasswordRequired", sp.pos)
       ELSE IF ~sp.params.some /\ password.some THEN Fail("NoPasswordRequired", sp.pos)
       ELSE IF c.err # "none" THEN Fail("InvalidScryptParams", sp.pos)
       ELSE [err |-> "none", pos |-> sp.pos, cipher |-> c.cipher, info |-> i.val]

\* The record of one read_path / read_file call.
CallRec(op, err, some, type, path, out, term, byte, from, to) ==
    [op |-> op, err |-> err, some |-> some, type |-> type, path |-> path, out |-> out,
     term |-> term, byte |-> byte, from |-> from, to |-> to]

\* A variant of Decode::read_path: a byte that is no type tag is left in
\* the source and reported as an unnamed directory.
read_path_keep_unknown(s, ps, ciph) ==
    LET t == read_exact(s, ps, 1)
        ft == FileType_parse(t.val[1])
        R(err, some, type, path, byte, to) ==
            CallRec("read_path", err, some, type, path, <<>>, FALSE, byte, ps, to)
    IN IF t.err # "none" THEN R("none", FALSE, "none", <<>>, 0, t.pos)
       ELSE IF ft.err # "none" THEN R("none", TRUE, "Directory", <<>>, t.val[1], ps)
       ELSE IF ciph.some
       THEN LET c == read_encrypt_chunk(s, t.pos, ciph) IN
            IF c.err # "none" THEN R(c.err, FALSE, "none", <<>>, 0, c.pos)
            ELSE IF ~c.some THEN R("FilePath", FALSE, "none", <<>>, 0, c.pos)
            ELSE IF ~from_utf8_ok(c.val) THEN R("Utf8", FALSE, "none", <<>>, 0, c.pos)
            ELSE R("none", TRUE, ft.type, c.val, 0, c.pos)
       ELSE LET c == read_chunk_to_string(s, t.pos) IN
            IF c.err # "none" THEN R(c.err, FALSE, "none", <<>>, 0, c.pos)
            ELSE R("none", TRUE, ft.type, c.val, 0, c.pos)

\* Decode::read_path
read_path(s, ps, ciph) ==
    LET t == read_exact(s, ps, 1)
        ft == FileType_parse(t.val[1])
        R(err, some, type, path, byte, to) ==
            CallRec("read_path", err, some, type, path, <<>>, FALSE, byte, ps, to)
    IN IF t.err # "none" THEN R("none", FALSE, "none", <<>>, 0, t.pos)
       ELSE IF ft.err # "none" THEN R("FileType", FALSE, "none", <<>>, t.val[1], t.pos)
       ELSE IF ciph.some
       THEN LET c == read_encrypt_chunk(s, t.pos, ciph) IN
            IF c.err # "none" THEN R(c.err, FALSE, "none", <<>>, 0, c.pos)
            ELSE IF ~c.some THEN R("FilePath", FALSE, "none", <<>>, 0, c.pos)
            ELSE IF ~from_utf8_ok(c.val) THEN R("Utf8", FALSE, "none", <<>>, 0, c.pos)
            ELSE R("none", TRUE, ft.type, c.val, 0, c.pos)
       ELSE LET c == read_chunk_to_string(s, t.pos) IN
            IF c.err # "none" THEN R(c.err, FALSE, "none", <<>>, 0, c.pos)
            ELSE R("none", TRUE, ft.type, c.val, 0, c.pos)

\* A variant of the loop of Decode::read_file: one chunk, no loop.
read_file_once(s, ps, ciph, fed) ==
    LET c == IF ciph.some THEN read_encrypt_chunk(s, ps, ciph)
             ELSE LET pc == read_chunk(s, ps) IN
                  [err |-> IF pc.err = "none" THEN "none" ELSE "IO(UnexpectedEof)",
                   some |-> pc.err = "none" /\ pc.val # <<>>, val |-> pc.val, pos |-> pc.pos]
        isTerm == read_chunk(s, ps).err = "none" /\ read_chunk(s, ps).val = <<>>
    IN IF c.err # "none" THEN [err |-> c.err, pos |-> c.pos, fed |-> fed, term |-> FALSE]
       ELSE [err |-> "none", pos |-> c.pos, fed |-> fed \o c.val, term |-> isTerm]

\* The `loop` of Decode::read_file; fed is what the DecompressorWriter was
\* given so far.  term: the loop ended on a zero-length chunk.
RECURSIVE read_file_loop(_, _, _, _)
read_file_loop(s, ps, ciph, fed) ==
    LET c == IF ciph.some THEN read_encrypt_chunk(s, ps, ciph)
             ELSE LET pc == read_chunk(s, ps) IN
                  [err |-> IF pc.err = "none" THEN "none" ELSE "IO(UnexpectedEof)",
                   some |-> pc.err = "none" /\ pc.val # <<>>, val |-> pc.val, pos |-> pc.pos]
        isTerm == read_chunk(s, ps).err = "none" /\ read_chunk(s, ps).val = <<>>
    IN IF c.err # "none" THEN [err |-> c.err, pos |-> c.pos, fed |-> fed, term |-> FALSE]
       ELSE IF ~c.some THEN [err |-> "none", pos |-> c.pos, fed |-> fed, term |-> isTerm]
       ELSE IF Brotli_decompress(fed \o c.val).st = "bad"
       THEN [err |-> "IO(InvalidData)", pos |-> c.pos, fed |-> fed \o c.val, term |-> FALSE]
       ELSE read_file_loop(s, c.pos, ciph, fed \o c.val)

\* Decode::read_file: out is what the caller's sink has received when the
\* call returns (flush only flushes the sink).
read_file(s, ps, ciph) ==
    LET l == read_file_loop(s, ps, ciph, <<>>) IN
    CallRec("read_file", l.err, FALSE, "none", <<>>, Brotli_decompress(l.fed).out,
            l.term, 0, ps, l.pos)

(***************************************************************************)
(* Bounds and input domains                                                *)
(***************************************************************************)
\* write_* calls per archive
MaxEntries == 2

\* read_path / read_file calls per decoder
MaxCalls == 5

\* entries of an archive whose bits are flipped
MaxFlipEntries == 1

DEFAULT_BUF_SIZE == 8192

DEFAULT_SCRYPT_N == 15

DEFAULT_SCRYPT_R == 8

DEFAULT_SCRYPT_P == 1

\* ScryptParams::default() with the salt thread_rng gave
ScryptParams_default(salt) ==
    SomeParams(salt, DEFAULT_SCRYPT_N, U32(0, DEFAULT_SCRYPT_R), U32(0, DEFAULT_SCRYPT_P))

Salt0 == [i \in 1..SALT_LEN |-> 16 + i]

\* thread_rng: the i-th nonce it gives when seeded with sd.  Seed 0 repeats
\* one value, seed 1 never repeats.
NonceStream(sd, i) ==
    IF sd = 0 THEN [j \in 1..NONCE_LEN |-> j]
    ELSE [j \in 1..NONCE_LEN |-> (16 * i + j) % 256]

DrawNonces(sd, drawn, k) == [i \in 1..k |-> NonceStream(sd, drawn + i)]

\* Parameters outside scrypt's domain (r = 0)
BadParams == SomeParams(Salt0, DEFAULT_SCRYPT_N, U32(0, 0), U32(0, DEFAULT_SCRYPT_P))

PwP == <<112>>

PwQ == <<113>>

NewArgs(info, pw, bs, sd) == [info |-> info, password |-> pw, buf_size |-> bs, seed |-> sd]

\* The inputs of the main specification: the arguments of Encode::new (and
\* the seed of thread_rng), the paths, the file contents, the ways a file's
\* source can fail, the passwords given to Decode::new.
Dom ==
    [news     |-> {NewArgs(<<>>, NoPassword, DEFAULT_BUF_SIZE, 0),
                   NewArgs(<<195, 169>>, NoPassword, 2, 0),
                   NewArgs(<<>>, Password(PwP, ScryptParams_default(Salt0)), 2, 0),
                   NewArgs(<<195, 169>>, Password(PwP, ScryptParams_default(Salt0)),
                           DEFAULT_BUF_SIZE, 1),
                   NewArgs(<<105>>, Password(PwP, BadParams), DEFAULT_BUF_SIZE, 1)},
     paths    |-> {<<>>, <<100>>},
     contents |-> {<<>>, <<97, 97, 97, 97>>},
     serrs    |-> {"none"},
     decpws   |-> {NoPassword, Password(PwP, NoParams), Password(PwQ, NoParams)},
     entries  |-> MaxEntries]

\* The inputs of the specification of cut and bit-flipped archives.
DomTamper ==
    [news     |-> {NewArgs(<<105>>, NoPassword, 1, 0),
                   NewArgs(<<>>, Password(PwP, ScryptParams_default(Salt0)), 1, 1)},
     paths    |-> {<<100>>},
     contents |-> {<<97>>},
     serrs    |-> {"none"},
     decpws   |-> {NoPassword, Password(PwP, NoParams)},
     entries  |-> MaxEntries]

(***************************************************************************)
(* Initial state and actions                                               *)
(***************************************************************************)
NoTamper == [kind |-> "none", at |-> 0, bit |-> 0]

Init ==
    /\ wire = <<>>
    /\ encSt = "none"
    /\ enc = [cipher |-> NoCipher, buf_size |-> 0]
    /\ encRes = [err |-> "none", args |-> NewArgs(<<>>, NoPassword, 0, 0), len |-> 0]
    /\ written = <<>>
    /\ sealed = {}
    /\ nonceLog = <<>>
    /\ src = <<>>
    /\ pos = 0
    /\ tamper = NoTamper
    /\ decSt = "none"
    /\ dec = [cipher |-> NoCipher, info |-> <<>>]
    /\ decRes = [err |-> "none", password |-> NoPassword]
    /\ calls = <<>>

decVars == <<src, pos, tamper, decSt, dec, decRes, calls>>

encVars == <<wire, encSt, enc, encRes, written, sealed, nonceLog>>

SealSet(seals) == {seals[i] : i \in 1..Len(seals)}

NonceSeq(seals) == [i \in 1..Len(seals) |-> seals[i].nonce]

\* The record of one write_directory / write_file call.
\* from, to: the sink's length before and after; body: where the bytes after
\* the path chunk start.
WriteRec(type, p, data, serr, reads, ns, r) ==
    [type |-> type, path |-> p, data |-> data, serr |-> serr, reads |-> reads,
     err |-> r.err, ret |-> r.ret, from |-> Len(wire), to |-> Len(wire) + Len(r.out),
     body |-> Len(wire) + 1
                + Len(put_chunk(enc.cipher, IF ns = <<>> THEN <<>> ELSE ns[1], p).out)]

\* Encode::new(writer, info, password, params)
EncodeNew(D) ==
    /\ encSt = "none" /\ decSt = "none"
    /\ \E a \in D.news :
         LET r == Encode_new(a.info, a.password, a.buf_size) IN
         /\ wire' = wire \o r.out
         /\ encSt' = IF r.err = "none" THEN "open" ELSE "failed"
         /\ enc' = [cipher |-> r.cipher, buf_size |-> a.buf_size]
         /\ encRes' = [err |-> r.err, args |-> a, len |-> Len(r.out)]
    /\ UNCHANGED <<written, sealed, nonceLog>>
    /\ UNCHANGED decVars

\* The effect of a write_* call that returned r.
Wrote(rec, r) ==
    /\ wire' = wire \o r.out
    /\ written' = Append(written, rec)
    /\ sealed' = sealed \cup SealSet(r.seals)
    /\ nonceLog' = nonceLog \o NonceSeq(r.seals)
    /\ UNCHANGED <<encSt, enc, encRes>>
    /\ UNCHANGED decVars

\* encode.write_directory(p)
WriteDirectory(D) ==
    /\ encSt = "open" /\ decSt = "none" /\ Len(written) < D.entries
    /\ \E p \in D.paths :
         LET ns == DrawNonces(encRes.args.seed, Len(nonceLog),
                              NoncesNeeded(enc.cipher, p, <<>>))
             r == write_directory(enc.cipher, p, ns)
         IN Wrote(WriteRec("Directory", p, <<>>, "none", <<>>, ns, r), r)

\* encode.write_file(p, reader): the source holds b and fails with serr
\* (if not "none") after k bytes.
WriteFile(D) ==
    /\ encSt = "open" /\ decSt = "none" /\ Len(written) < D.entries
    /\ \E p \in D.paths, b \in D.contents, serr \in D.serrs :
       \E k \in (IF serr = "none" THEN {Len(b)} ELSE 0..Len(b)) :
       \E reads \in CompressorReads(b, serr, k, enc.buf_size) :
         LET ns == DrawNonces(encRes.args.seed, Len(nonceLog),
                              NoncesNeeded(enc.cipher, p, reads))
             r == write_file(enc.cipher, p, reads, ns)
         IN Wrote(WriteRec("File", p, b, serr, reads, ns, r), r)

\* The archive as written becomes a decoder's source.
Present ==
    /\ decSt = "none"
    /\ src' = wire
    /\ decSt' = "ready"
    /\ UNCHANGED <<pos, tamper, dec, decRes, calls>>
    /\ UNCHANGED encVars

\* Decode::new(reader, password, buf_size)
DecodeNew(D) ==
    /\ decSt = "ready"
    /\ \E pw \in D.decpws :
         LET r == Decode_new(src, pw) IN
         /\ pos' = r.pos
         /\ decSt' = IF r.err = "none" THEN "open" ELSE "failed"
         /\ dec' = [cipher |-> r.cipher, info |-> r.info]
         /\ decRes' = [err |-> r.err, password |-> pw]
    /\ UNCHANGED <<src, tamper, calls>>
    /\ UNCHANGED encVars

Last(q) == q[Len(q)]

\* A variant of the caller: it reads a body after every entry, directories
\* included.
AwaitBodyAnyEntry ==
    /\ calls # <<>>
    /\ Last(calls).op = "read_path" /\ Last(calls).some

\* The caller of the decoder: after a read_path that returned a File entry
\* it owes a read_file; after a None or an error it has stopped.
AwaitBody ==
    /\ calls # <<>>
    /\ Last(calls).op = "read_path" /\ Last(calls).some /\ Last(calls).type = "File"

Stopped ==
    /\ calls # <<>>
    /\ Last(calls).err # "none" \/ (Last(calls).op = "read_path" /\ ~Last(calls).some)

\* decode.read_path(); a caller that is not `free` follows the protocol.
ReadPath(free) ==
    /\ decSt = "open" /\ Len(calls) < MaxCalls
    /\ free \/ (~AwaitBody /\ ~Stopped)
    /\ LET r == read_path(src, pos, dec.cipher) IN
       /\ pos' = r.to
       /\ calls' = Append(calls, r)
    /\ UNCHANGED <<src, tamper, decSt, dec, decRes>>
    /\ UNCHANGED encVars

\* decode.read_file(writer)
ReadFile(free) ==
    /\ decSt = "open" /\ Len(calls) < MaxCalls
    /\ free \/ AwaitBody
    /\ LET r == read_file(src, pos, dec.cipher) IN
       /\ pos' = r.to
       /\ calls' = Append(calls, r)
    /\ UNCHANGED <<src, tamper, decSt, dec, decRes>>
    /\ UNCHANGED encVars

\* The source is the archive cut after its first k bytes (k = Len(wire): the
\* whole archive).
Cut ==
    /\ decSt = "none" /\ encSt # "none"
    /\ \E k \in 0..Len(wire) :
         /\ src' = SubSeq(wire, 1, k)
         /\ tamper' = [kind |-> "cut", at |-> k, bit |-> 0]
    /\ decSt' = "ready"
    /\ UNCHANGED <<pos, dec, decRes, calls>>
    /\ UNCHANGED encVars

\* The source is the archive with bit b of its i-th byte flipped.
Flip ==
    /\ decSt = "none" /\ encSt # "none" /\ Len(written) <= MaxFlipEntries
    /\ \E i \in 1..Len(wire), b \in 0..7 :
         /\ src' = [wire EXCEPT ![i] = FlipBit(@, b)]
         /\ tamper' = [kind |-> "flip", at |-> i, bit |-> b]
    /\ decSt' = "ready"
    /\ UNCHANGED <<pos, dec, decRes, calls>>
    /\ UNCHANGED encVars

Next ==
    \/ EncodeNew(Dom)
    \/ WriteDirectory(Dom)
    \/ WriteFile(Dom)
    \/ Present
    \/ DecodeNew(Dom)
    \/ ReadPath(FALSE)
    \/ ReadFile(FALSE)

Spec == Init /\ [][Next]_vars

NextTamper ==
    \/ EncodeNew(DomTamper)
    \/ WriteDirectory(DomTamper)
    \/ WriteFile(DomTamper)
    \/ Cut
    \/ Flip
    \/ DecodeNew(DomTamper)
    \/ ReadPath(FALSE)
    \/ ReadFile(FALSE)

SpecTamper == Init /\ [][NextTamper]_vars

(***************************************************************************)
(* Properties                                                              *)
(***************************************************************************)
\* The decoder reads the archive exactly as the encoder wrote it.
Untampered == src = wire

AllWritesOk == \A i \in 1..Len(written) : written[i].err = "none"

IsSome(c) == c.op = "read_path" /\ c.err = "none" /\ c.some

IsNone(c) == c.op = "read_path" /\ c.err = "none" /\ ~c.some

\* The number of entries read_path has returned in the first j calls: the
\* j-th call is about the EntryNo(j)-th entry.
EntryNo(j) == Cardinality({i \in 1..j : IsSome(calls[i])})

\* C1: without a password, read_path (with read_file once after each File
\* entry) returns the (type, path) pairs of the write_* calls, in their order,
\* without error, and None only after the last of them.
C1_PlainEntriesRoundTrip ==
    (decSt = "open" /\ encSt = "open" /\ ~enc.cipher.some /\ Untampered /\ AllWritesOk) =>
        /\ \A j \in 1..Len(calls) : calls[j].err = "none"
        /\ \A j \in 1..Len(calls) :
             IsSome(calls[j]) =>
                 /\ EntryNo(j) <= Len(written)
                 /\ calls[j].type = written[EntryNo(j)].type
                 /\ calls[j].path = written[EntryNo(j)].path
        /\ \A j \in 1..Len(calls) : IsNone(calls[j]) => EntryNo(j) = Len(written)

C1_Witness ==
    /\ decSt = "open" /\ ~enc.cipher.some /\ Untampered
    /\ Len(written) = 2 /\ written[1].type = "File" /\ written[1].data # <<>>
    /\ written[1].path # <<>> /\ written[2].type = "Directory"
    /\ Len(calls) = 4 /\ IsSome(calls[1]) /\ IsSome(calls[3]) /\ IsNone(calls[4])

\* C2: for a file whose source read to its end without error and whose
\* write_file returned Ok, the read_file of that entry (same password or
\* none) returns Ok after the terminator and has written to the sink exactly
\* the source's bytes.
C2_ContentRoundTrip ==
    (decSt = "open" /\ encSt = "open" /\ Untampered /\ dec.cipher = enc.cipher
       /\ AllWritesOk) =>
        \A j \in 1..Len(calls) :
            (calls[j].op = "read_file" /\ EntryNo(j) \in 1..Len(written)) =>
                LET w == written[EntryNo(j)] IN
                (w.type = "File" /\ w.serr = "none") =>
                    /\ calls[j].err = "none"
                    /\ calls[j].term
                    /\ calls[j].out = w.data

C2_Witness ==
    /\ decSt = "open" /\ dec.cipher.some /\ dec.cipher = enc.cipher /\ Untampered
    /\ Len(calls) >= 2 /\ calls[2].op = "read_file" /\ calls[2].err = "none"
    /\ calls[2].out = <<97, 97, 97, 97>>
    /\ Len(written[1].reads) >= 3

\* C3: Decode::new over the encoder's bytes succeeds when a password is
\* given exactly if one was given to Encode::new, and info() is the info
\* string given to Encode::new, also after read_path / read_file calls.
C3_InfoRoundTrip ==
    /\ (decSt \in {"open", "failed"} /\ encSt = "open" /\ Untampered
          /\ decRes.password.some = encRes.args.password.some) =>
           (decRes.err = "none" /\ decSt = "open")
    /\ (decSt = "open" /\ encSt = "open" /\ Untampered) => dec.info = encRes.args.info

C3_Witness ==
    /\ decSt = "open" /\ encSt = "open" /\ Untampered /\ dec.cipher.some
    /\ dec.info = <<195, 169>> /\ Len(calls) >= 2

\* C4: the password matrix of Decode::new on a preamble Encode::new wrote.
\* plain, no password: Ok, no cipher.  encrypted (parameters in scrypt's
\* domain), password: Ok, the cipher derived from the password and the stored
\* parameters.  encrypted, no password: PasswordRequired.  plain, password:
\* NoPasswordRequired.  After an error there is no decoder and no call.
C4_PasswordMatrix ==
    (decSt \in {"open", "failed"} /\ encSt # "none" /\ Untampered) =>
        LET encrypted == encRes.args.password.some
            given == decRes.password.some
        IN /\ (~encrypted /\ ~given) =>
                  (decSt = "open" /\ decRes.err = "none" /\ dec.cipher = NoCipher)
           /\ (encrypted /\ given /\ encSt = "open") =>
                  /\ decSt = "open" /\ decRes.err = "none"
                  /\ dec.cipher = cipher(decRes.password.key,
                                         encRes.args.password.params).cipher
                  /\ dec.cipher.some
           /\ (encrypted /\ ~given) =>
                  (decSt = "failed" /\ decRes.err = "PasswordRequired" /\ calls = <<>>)
           /\ (~encrypted /\ given) =>
                  (decSt = "failed" /\ decRes.err = "NoPasswordRequired" /\ calls = <<>>)

C4_Witness ==
    /\ decSt = "failed" /\ Untampered /\ decRes.err = "NoPasswordRequired"
    /\ written # <<>>

\* C5: Decode::new fails on every proper prefix of the preamble; it returns
\* InvalidHead when the first three bytes are not "mei", InvalidVersion when
\* they are and the fourth byte is not 1, InvalidEncryptMethod when the byte
\* after a valid info chunk is neither 0 nor 1; read_head and read_version
\* accept exactly the bytes write_head and write_version emit.
C5_PreambleValidation ==
    (decSt \in {"open", "failed"}) =>
        LET n == src[5] * 256 + src[6] IN
        /\ (tamper.kind = "cut" /\ tamper.at < encRes.len) => decSt = "failed"
        /\ (Len(src) >= 3 /\ SubSeq(src, 1, 3) # <<109, 101, 105>>) =>
               (decSt = "failed" /\ decRes.err = "InvalidHead")
        /\ (Len(src) >= 4 /\ SubSeq(src, 1, 3) = <<109, 101, 105>> /\ src[4] # 1) =>
               (decSt = "failed" /\ decRes.err = "InvalidVersion")
        /\ (/\ Len(src) >= 6 /\ SubSeq(src, 1, 4) = <<109, 101, 105, 1>>
            /\ Len(src) >= 7 + n /\ from_utf8_ok(SubSeq(src, 7, 6 + n))
            /\ src[7 + n] \notin {0, 1}) =>
               (decSt = "failed" /\ decRes.err = "InvalidEncryptMethod")
        /\ Len(src) >= 3 => (read_head(src, 0).err = "none" <=> SubSeq(src, 1, 3) = write_head)
        /\ Len(src) >= 4 =>
               (read_version(src, 3).err = "none" <=> SubSeq(src, 4, 4) = write_version)

C5_Witness ==
    /\ tamper.kind = "flip" /\ tamper.at = encRes.len /\ ~encRes.args.password.some
    /\ decSt = "failed" /\ decRes.err = "InvalidEncryptMethod"

\* The decoder's key is the encoder's / is another key.
SameKey == enc.cipher.some /\ dec.cipher = enc.cipher

WrongKey == enc.cipher.some /\ dec.cipher.some /\ dec.cipher # enc.cipher

\* C6: with a password, every write_directory / write_file of a path of 0 to
\* 65535 bytes succeeds, and a decoder with the same password gets each
\* (type, path) back from read_path, in write order, the empty path included.
C6_EncryptedEntriesRoundTrip ==
    /\ (encSt = "open" /\ enc.cipher.some) => AllWritesOk
    /\ (decSt = "open" /\ encSt = "open" /\ Untampered /\ SameKey) =>
        /\ \A j \in 1..Len(calls) : calls[j].err = "none"
        /\ \A j \in 1..Len(calls) :
             IsSome(calls[j]) =>
                 /\ EntryNo(j) <= Len(written)
                 /\ calls[j].type = written[EntryNo(j)].type
                 /\ calls[j].path = written[EntryNo(j)].path
        /\ \A j \in 1..Len(calls) : IsNone(calls[j]) => EntryNo(j) = Len(written)

\* C7 as stated: decoding with another password ends with DecryptionFailed,
\* whatever the number of entries.
C7_WrongPasswordAlwaysFails ==
    (decSt = "open" /\ Untampered /\ WrongKey /\ Stopped) =>
        Last(calls).err = "DecryptionFailed"

\* C7: Decode::new accepts another password; then the first read_path
\* returns DecryptionFailed when the archive has an entry whose path chunk
\* holds a ciphertext, FilePath when the first path is empty (a bare
\* zero-length chunk), and None when the archive has no entry.  No entry is
\* ever returned.
C7_WrongPasswordFirstReadPath ==
    /\ (decSt \in {"open", "failed"} /\ encSt = "open" /\ Untampered
          /\ enc.cipher.some /\ decRes.password.some) => decSt = "open"
    /\ (decSt = "open" /\ encSt = "open" /\ Untampered /\ WrongKey /\ calls # <<>>) =>
        /\ Len(calls) = 1 /\ calls[1].op = "read_path" /\ ~calls[1].some
        /\ calls[1].err = (IF written = <<>> THEN "none"
                           ELSE IF written[1].path = <<>> THEN "FilePath"
                           ELSE "DecryptionFailed")

C7_Witness ==
    /\ decSt = "open" /\ Untampered /\ WrongKey /\ Len(written) = 2
    /\ written[1].type = "File" /\ written[1].path # <<>>
    /\ Len(calls) = 1 /\ calls[1].err = "DecryptionFailed"

\* The 1-based offsets of the data chunks of the i-th entry: after its path
\* chunk, before its two-byte terminator.
DataBytes(i) == (written[i].body + 1)..(written[i].to - 2)

\* C8: with the right password, one flipped bit in a data chunk of a file
\* (length prefix, ciphertext and tag, or nonce) makes the read_file of that
\* file return DecryptionFailed; read_file never returns Ok having delivered
\* fewer or other bytes than were written.
C8_TamperDetected ==
    (/\ decSt = "open" /\ encSt = "open" /\ SameKey /\ tamper.kind = "flip"
     /\ Len(written) = 1 /\ written[1].type = "File" /\ written[1].err = "none"
     /\ tamper.at \in DataBytes(1)) =>
        \A j \in 1..Len(calls) :
            calls[j].op = "read_file" =>
                /\ calls[j].err = "DecryptionFailed"
                /\ ~(calls[j].err = "none" /\ calls[j].out # written[1].data)

\* The offsets at which an entry starts or the archive ends.
Boundaries == {encRes.len} \cup {written[i].to : i \in 1..Len(written)}

\* C9: for an archive cut after the preamble, read_path returns None only
\* when the cut is at an entry boundary; when it is inside an entry, the call
\* that reaches it returns an error; read_file returns Ok only after a
\* zero-length terminator chunk.
C9_SoftEofOnlyAtTypeByte ==
    (/\ decSt = "open" /\ encSt = "open" /\ tamper.kind = "cut"
     /\ tamper.at >= encRes.len /\ dec.cipher = enc.cipher /\ AllWritesOk) =>
        /\ \A j \in 1..Len(calls) : IsNone(calls[j]) => tamper.at \in Boundaries
        /\ (tamper.at \notin Boundaries /\ Stopped) => Last(calls).err # "none"
        /\ \A j \in 1..Len(calls) :
             (calls[j].op = "read_file" /\ calls[j].err = "none") => calls[j].term

RECURSIVE SumLen(_)
SumLen(reads) == IF reads = <<>> THEN 0 ELSE Len(Head(reads).data) + SumLen(Tail(reads))

\* The files written from a source that read to its end, write_file Ok.
FilesWritten ==
    {i \in 1..Len(written) :
        written[i].type = "File" /\ written[i].err = "none" /\ written[i].serr = "none"}

\* C10 as stated: write_file returns the length of the source.
C10_ReturnsUncompressedCount ==
    \A i \in FilesWritten : written[i].ret = Len(written[i].data)

\* C10: write_file returns the number of compressed bytes the
\* CompressorReader returned, the sum of the n of its Ok(n) reads, which is
\* the length of the compressed stream and the payload of the data chunks.
C10_ReturnsCompressedCount ==
    \A i \in FilesWritten :
        /\ written[i].ret = SumLen(written[i].reads)
        /\ written[i].ret = Len(Brotli_compress(written[i].data))

C10_Witness ==
    \E i \in FilesWritten :
        /\ written[i].data = <<97, 97, 97, 97>> /\ written[i].ret = 3
        /\ Len(written[i].reads) = 3

(***************************************************************************)
(* Infos and paths at the 65535-byte limit of a chunk (encoder only)       *)
(***************************************************************************)
MaxLimitEntries == 1

DomLimit ==
    [news     |-> {NewArgs(info, NoPassword, bs, 1) :
                     info \in {<<>>, <<195, 169>>, Rep(105, 65535), Rep(105, 65536)},
                     bs \in {1, 2, DEFAULT_BUF_SIZE}}
                  \cup {NewArgs(info, Password(PwP, ScryptParams_default(Salt0)),
                                DEFAULT_BUF_SIZE, 1) :
                          info \in {<<>>, Rep(105, 65536)}},
     paths    |-> {<<100>>, Rep(97, 65519), Rep(97, 65520), Rep(97, 65535), Rep(97, 65536)},
     contents |-> {<<97, 97, 97, 97>>},
     serrs    |-> {"none"},
     decpws   |-> {NoPassword},
     entries  |-> MaxLimitEntries]

NextLimit ==
    \/ EncodeNew(DomLimit)
    \/ WriteDirectory(DomLimit)
    \/ WriteFile(DomLimit)

SpecLimit == Init /\ [][NextLimit]_vars

\* C11: Encode::new, write_directory and write_file return ChunkTooLong
\* exactly when the info string, respectively the path, is longer than 65535
\* bytes, with or without a password.
C11_ChunkTooLongOnlyAbove65535 ==
    /\ encSt # "none" => (encRes.err = "ChunkTooLong" <=> Len(encRes.args.info) > 65535)
    /\ \A i \in 1..Len(written) :
         written[i].err = "ChunkTooLong" <=> Len(written[i].path) > 65535

(***************************************************************************)
(* A caller that issues read_path and read_file in any order, also after   *)
(* an error, over an intact or a damaged archive                           *)
(***************************************************************************)
DomFree ==
    [news     |-> {NewArgs(<<>>, NoPassword, DEFAULT_BUF_SIZE, 1),
                   NewArgs(<<>>, Password(PwP, ScryptParams_default(Salt0)),
                           DEFAULT_BUF_SIZE, 1)},
     paths    |-> {<<100>>},
     contents |-> {<<>>},
     serrs    |-> {"none"},
     decpws   |-> {NoPassword, Password(PwP, NoParams)},
     entries  |-> MaxEntries]

\* The source is the archive with the top bit of its i-th byte flipped.
FlipTop ==
    /\ decSt = "none" /\ encSt # "none"
    /\ \E i \in 1..Len(wire) :
         /\ src' = [wire EXCEPT ![i] = FlipBit(@, 7)]
         /\ tamper' = [kind |-> "flip", at |-> i, bit |-> 7]
    /\ decSt' = "ready"
    /\ UNCHANGED <<pos, dec, decRes, calls>>
    /\ UNCHANGED encVars

NextFree ==
    \/ EncodeNew(DomFree)
    \/ WriteDirectory(DomFree)
    \/ WriteFile(DomFree)
    \/ Present
    \/ FlipTop
    \/ DecodeNew(DomFree)
    \/ ReadPath(TRUE)
    \/ ReadFile(TRUE)

SpecFree == Init /\ [][NextFree]_vars

\* C12: once a read_path or read_file call has returned an error, no later
\* read_path call on the same decoder returns Ok(Some(entry)).
C12_ErrorsAreFatal ==
    \A j \in 1..Len(calls) : \A k \in 1..Len(calls) :
        (j < k /\ calls[j].err # "none") => ~IsSome(calls[k])

\* The bytes the i-th write_* call appended to the sink.
EntryBytes(i) == SubSeq(wire, written[i].from + 1, written[i].to)

\* The write_* calls appended their bytes one after the other, from the end
\* of the preamble to the end of the sink.
Contiguous ==
    /\ \A i \in 1..Len(written) :
         written[i].from = (IF i = 1 THEN encRes.len ELSE written[i - 1].to)
    /\ Len(wire) = (IF written = <<>> THEN encRes.len ELSE written[Len(written)].to)

\* C13: without a password Encode::new writes 'm' 'e' 'i', 01, the 2-byte
\* big-endian length of the info, the info, 00 (6D 65 69 01 00 00 00 for the
\* empty info); each write_directory(p) appends 00, the 2-byte big-endian
\* length of p and p (00 00 01 64 for "d"), and nothing else.
C13_PlainWireLayout ==
    (encSt # "none" /\ ~encRes.args.password.some) =>
        LET info == encRes.args.info
            pre == <<109, 101, 105, 1, Len(info) \div 256, Len(info) % 256>> \o info \o <<0>>
        IN /\ encRes.len = Len(pre) /\ SubSeq(wire, 1, encRes.len) = pre
           /\ info = <<>> => SubSeq(wire, 1, 7) = <<109, 101, 105, 1, 0, 0, 0>>
           /\ Contiguous
           /\ \A i \in 1..Len(written) :
                written[i].type = "Directory" =>
                    LET q == written[i].path IN
                    /\ EntryBytes(i) = <<0, Len(q) \div 256, Len(q) % 256>> \o q
                    /\ q = <<100>> => EntryBytes(i) = <<0, 0, 1, 100>>

C13_Witness ==
    /\ encSt = "open" /\ ~encRes.args.password.some /\ Len(written) = 1
    /\ written[1].type = "Directory"
    /\ wire = <<109, 101, 105, 1, 0, 0, 0, 0, 0, 1, 100>>

\* Where the decoder stood when Decode::new returned.
PosAfterNew == IF calls = <<>> THEN pos ELSE calls[1].from

\* The header of n bytes after the tag byte 01, written after the info chunk
\* and consumed by Decode::new.
HeaderAfterTag(n) ==
    /\ (encSt # "none" /\ encRes.args.password.some) =>
           /\ encRes.len = 6 + Len(encRes.args.info) + 1 + n
           /\ wire[6 + Len(encRes.args.info) + 1] = 1
    /\ (decSt = "open" /\ Untampered /\ encRes.args.password.some) =>
           PosAfterNew = 6 + Len(encRes.args.info) + 1 + n

\* C14 as stated: the tag byte 01 is followed by 26 bytes of parameters.
C14_Header26AfterTag == HeaderAfterTag(26)

\* C14: the tag byte 01 is followed by 25 bytes of parameters (salt 16, N 1,
\* r 4, p 4), 26 bytes with the tag; Decode::new consumes exactly them.
C14_Header25AfterTag ==
    /\ HeaderAfterTag(25)
    /\ (encSt # "none" /\ encRes.args.password.some) =>
           LET a == 6 + Len(encRes.args.info) + 1
               v == encRes.args.password.params
           IN /\ SubSeq(wire, a + 1, a + 16) = v.salt
              /\ wire[a + 17] = v.n
              /\ SubSeq(wire, a + 18, a + 21)
                   = <<v.r.hi \div 256, v.r.hi % 256, v.r.lo \div 256, v.r.lo % 256>>
              /\ SubSeq(wire, a + 22, a + 25)
                   = <<v.p.hi \div 256, v.p.hi % 256, v.p.lo \div 256, v.p.lo % 256>>

C14_Witness ==
    /\ decSt = "open" /\ Untampered /\ encRes.args.password.some
    /\ encRes.args.info = <<195, 169>> /\ encRes.len = 34 /\ PosAfterNew = 34
    /\ calls # <<>> /\ IsSome(calls[1])

(***************************************************************************)
(* Encryption headers over the range of their fields                       *)
(***************************************************************************)
DomParams ==
    [news     |-> {NewArgs(<<>>, NoPassword, DEFAULT_BUF_SIZE, 1)}
                  \cup {NewArgs(<<>>, Password(PwP, SomeParams(salt, n, r, p)),
                                DEFAULT_BUF_SIZE, 1) :
                          salt \in {Salt0, Rep(0, SALT_LEN), Rep(255, SALT_LEN)},
                          n \in {0, DEFAULT_SCRYPT_N, 255},
                          r \in {U32(0, 0), U32(0, DEFAULT_SCRYPT_R), U32(1, 2),
                                 U32(65535, 65535)},
                          p \in {U32(0, DEFAULT_SCRYPT_P), U32(258, 772), U32(65535, 65535)}},
     paths    |-> {<<100>>},
     contents |-> {<<>>},
     serrs    |-> {"none"},
     decpws   |-> {NoPassword, Password(PwP, NoParams)},
     entries  |-> MaxEntries]

NextParams ==
    \/ EncodeNew(DomParams)
    \/ Present
    \/ DecodeNew(DomParams)
    \/ ReadPath(FALSE)

SpecParams == Init /\ [][NextParams]_vars

\* C15: for every Option<ScryptParams> v, read_scrypt_option over the bytes
\* of write_scrypt_params(v) returns v, field by field (r and p big-endian),
\* and consumes exactly those bytes; so does Decode::new over the header
\* Encode::new wrote.
C15_ScryptHeaderRoundTrip ==
    /\ encSt # "none" =>
        LET v == encRes.args.password.params
            b == write_scrypt_params(v)
            back == read_scrypt_option(b, 0)
            inPlace == read_scrypt_option(wire, 6 + Len(encRes.args.info))
        IN /\ back.err = "none" /\ back.pos = Len(b)
           /\ back.params.some = v.some /\ back.params.salt = v.salt
           /\ back.params.n = v.n /\ back.params.r = v.r /\ back.params.p = v.p
           /\ inPlace.err = "none" /\ inPlace.params = v /\ inPlace.pos = encRes.len
           /\ v.some =>
                SubSeq(b, 19, 26)
                  = <<v.r.hi \div 256, v.r.hi % 256, v.r.lo \div 256, v.r.lo % 256,
                      v.p.hi \div 256, v.p.hi % 256, v.p.lo \div 256, v.p.lo % 256>>
    /\ (decSt = "open" /\ Untampered /\ decRes.password.some) =>
        LET v == encRes.args.password.params IN
        /\ dec.cipher.key = <<decRes.password.key, v.salt, v.n, v.r, v.p>>
        /\ PosAfterNew = encRes.len

C15_Witness ==
    /\ decSt = "open" /\ Untampered /\ decRes.password.some
    /\ dec.cipher.key[4] = U32(1, 2) /\ dec.cipher.key[5] = U32(0, DEFAULT_SCRYPT_P)
    /\ dec.cipher.key[2] = Rep(255, SALT_LEN)

\* The non-empty chunks of the i-th write call: its path, and one per
\* non-zero read of the compressor.
NonEmptyChunks(i) ==
    (IF written[i].path = <<>> THEN 0 ELSE 1)
    + Cardinality({k \in 1..Len(written[i].reads) :
                      written[i].reads[k].err = "none" /\ written[i].reads[k].data # <<>>})

RECURSIVE NonEmptyChunksUpTo(_)
NonEmptyChunksUpTo(i) == IF i = 0 THEN 0 ELSE NonEmptyChunks(i) + NonEmptyChunksUpTo(i - 1)

Plaintexts(i) ==
    <<written[i].path>> \o [k \in 1..Len(written[i].reads) |-> written[i].reads[k].data]

EncChunkLen(pt) == IF pt = <<>> THEN 2 ELSE 2 + (Len(pt) + 16) + 12

\* The offset in the archive of the k-th chunk of the i-th entry.
RECURSIVE EncChunkStart(_, _)
EncChunkStart(i, k) ==
    IF k = 1 THEN written[i].from + 1
    ELSE EncChunkStart(i, k - 1) + EncChunkLen(Plaintexts(i)[k - 1])

\* C17: in an encrypted archive a non-empty plaintext goes out as a 2-byte
\* length, that many bytes of ciphertext and tag, then the 12 bytes of the
\* nonce; an empty one as 00 00 alone; read_encrypt_chunk over the same
\* bytes with the same cipher consumes exactly them and returns the
\* plaintext (None for 00 00).
C17_EncryptedChunkFraming ==
    (encSt = "open" /\ enc.cipher.some /\ AllWritesOk) =>
        \A i \in 1..Len(written) :
           /\ \A k \in 1..Len(Plaintexts(i)) :
                 LET a == EncChunkStart(i, k)
                     pt == Plaintexts(i)[k]
                     c == SubSeq(wire, a + 1, a + EncChunkLen(pt))
                     rd == read_encrypt_chunk(wire, a, enc.cipher)
                 IN /\ a + EncChunkLen(pt) <= written[i].to
                    /\ IF pt = <<>>
                       THEN /\ c = <<0, 0>>
                            /\ rd = [err |-> "none", some |-> FALSE, val |-> <<>>,
                                     pos |-> a + 2]
                       ELSE /\ 256 * c[1] + c[2] = Len(pt) + 16
                            /\ \E n \in 1..Len(nonceLog) :
                                  nonceLog[n] = SubSeq(c, Len(c) - 11, Len(c))
                            /\ [key |-> enc.cipher.key,
                                nonce |-> SubSeq(c, Len(c) - 11, Len(c)),
                                data |-> SubSeq(c, 3, Len(c) - 12)] \in sealed
                            /\ rd = [err |-> "none", some |-> TRUE, val |-> pt,
                                     pos |-> a + Len(c)]
           /\ EncChunkStart(i, Len(Plaintexts(i)) + 1) = written[i].to

C17_Witness ==
    /\ encSt = "open" /\ enc.cipher.some /\ Len(written) = 2 /\ AllWritesOk
    /\ written[1].type = "File" /\ written[1].path = <<100>>
    /\ Len(written[1].reads) = 3
    /\ written[2].path = <<>>
    /\ Len(wire) = written[1].from + 1 + 31 + (30 + Len(written[1].reads[1].data))
                   + (30 + Len(written[1].reads[2].data)) + 2
                   + (written[2].to - written[2].from)
    /\ read_encrypt_chunk(wire, written[1].from + 1, enc.cipher).val = <<100>>

(***************************************************************************)
(* Files whose source fails                                                *)
(***************************************************************************)
DomSource ==
    [news     |-> {NewArgs(<<>>, NoPassword, 2, 0),
                   NewArgs(<<>>, Password(PwP, ScryptParams_default(Salt0)), 2, 1)},
     paths    |-> {<<100>>},
     contents |-> {<<>>, <<97, 97, 97, 97>>},
     serrs    |-> {"none", "UnexpectedEof", "Other"},
     decpws   |-> {NoPassword},
     entries  |-> MaxEntries]

NextSource ==
    \/ EncodeNew(DomSource)
    \/ WriteDirectory(DomSource)
    \/ WriteFile(DomSource)

SpecSource == Init /\ [][NextSource]_vars

\* The payload lengths of the chunks found in the archive from offset a to
\* offset e, read as the decoder frames them (65536, which no chunk can
\* carry: the bytes do not end on a chunk boundary).
RECURSIVE BodyChunks(_, _, _)
BodyChunks(a, e, encrypted) ==
    IF a + 2 > e THEN (IF a = e THEN <<>> ELSE <<U16_MAX + 1>>)
    ELSE LET n == 256 * wire[a + 1] + wire[a + 2]
             step == IF n = 0 THEN 2 ELSE IF encrypted THEN 2 + n + 12 ELSE 2 + n
             payload == IF encrypted /\ n # 0 THEN n - 16 ELSE n
         IN <<payload>> \o BodyChunks(a + step, e, encrypted)

\* C18: after the path chunk of a write_file call that returned Ok come
\* data chunks of 1 to buf_size compressed bytes, one per non-zero read of
\* the compressor, then one zero-length chunk, which ends the entry; no
\* zero-length chunk comes earlier.
C18_FileBodyFraming ==
    encSt = "open" =>
        \A i \in 1..Len(written) :
           (written[i].type = "File" /\ written[i].err = "none") =>
              LET L == BodyChunks(written[i].body, written[i].to, enc.cipher.some)
                  rds == written[i].reads
              IN /\ Len(L) >= 1 /\ L[Len(L)] = 0
                 /\ \A k \in 1..(Len(L) - 1) : 1 <= L[k] /\ L[k] <= enc.buf_size
                 /\ Len(L) = Len(rds)
                 /\ \A k \in 1..(Len(L) - 1) :
                       rds[k].err = "none" /\ L[k] = Len(rds[k].data)
                 /\ SubSeq(wire, written[i].to - 1, written[i].to) = <<0, 0>>

C18_Witness ==
    /\ encSt = "open" /\ enc.cipher.some /\ enc.buf_size = 2
    /\ Len(written) = 2 /\ written[1].type = "File" /\ written[1].err = "none"
    /\ written[1].serr = "none"
    /\ BodyChunks(written[1].body, written[1].to, TRUE) = <<1, 2, 0>>
    /\ written[2].type = "File" /\ written[2].err = "none"
    /\ BodyChunks(written[2].body, written[2].to, TRUE) = <<0>>

\* The last read of the i-th write call: how the source ended.
LastRead(i) == written[i].reads[Len(written[i].reads)]

\* C19: when a read of the compressed source fails with UnexpectedEof,
\* write_file writes the terminator and returns Ok with the bytes counted
\* so far, and the entry is framed like that of a file that ended; when the
\* read fails with another error, write_file returns Err(IO) at once, and
\* the entry ends after its last data chunk, without a terminator.
C19_SourceErrorHandling ==
    encSt = "open" =>
        \A i \in 1..Len(written) :
           written[i].type = "File" =>
              LET L == BodyChunks(written[i].body, written[i].to, enc.cipher.some)
                  rds == written[i].reads
                  n == Len(rds)
              IN /\ LastRead(i).err = "UnexpectedEof" =>
                      /\ written[i].err = "none"
                      /\ written[i].ret = SumLen(SubSeq(rds, 1, n - 1))
                      /\ Len(L) = n /\ L[n] = 0
                      /\ \A k \in 1..(n - 1) : L[k] = Len(rds[k].data) /\ L[k] >= 1
                 /\ LastRead(i).err = "Other" =>
                      /\ written[i].err = "IO(Other)"
                      /\ Len(L) = n - 1
                      /\ \A k \in 1..(n - 1) : L[k] = Len(rds[k].data) /\ L[k] >= 1
                 /\ LastRead(i).err = "none" => written[i].err = "none"

C19_Witness ==
    /\ encSt = "open" /\ enc.cipher.some /\ Len(written) = 2
    /\ written[1].type = "File" /\ LastRead(1).err = "UnexpectedEof"
    /\ written[1].err = "none" /\ written[1].ret = 2
    /\ written[2].type = "File" /\ LastRead(2).err = "Other"
    /\ written[2].err = "IO(Other)" /\ Len(written[2].reads) = 2
    /\ Len(wire) = written[2].body + 30 + Len(written[2].reads[1].data)

(***************************************************************************)
(* Decode::new over sources that no encoder wrote                          *)
(***************************************************************************)
\* The sources: a head, a version byte, an info chunk, an encryption
\* header and the start of an entry, each right or wrong, cut anywhere.
ForgedSources ==
    {h \o v \o i \o e \o <<0, 0, 1, 100>> :
        h \in {HEAD, <<109, 101, 120>>},
        v \in {VERSION, <<2>>},
        i \in {<<0, 0>>, <<0, 1, 105>>, <<0, 1, 255>>},
        e \in {<<0>>, <<2>>, write_scrypt_params(ScryptParams_default(Salt0)),
               write_scrypt_params(BadParams)}}

DomOrder ==
    [news     |-> {},
     paths    |-> {},
     contents |-> {},
     serrs    |-> {},
     decpws   |-> {NoPassword, Password(PwP, NoParams)},
     entries  |-> 0]

\* The reader handed to Decode::new holds bytes of any origin.
Forge ==
    /\ decSt = "none" /\ encSt = "none"
    /\ \E f \in ForgedSources : \E k \in 0..Len(f) :
         /\ src' = SubSeq(f, 1, k)
         /\ tamper' = [kind |-> "forged", at |-> k, bit |-> 0]
    /\ decSt' = "ready"
    /\ UNCHANGED <<pos, dec, decRes, calls>>
    /\ UNCHANGED encVars

NextOrder ==
    \/ Forge
    \/ DecodeNew(DomOrder)

SpecOrder == Init /\ [][NextOrder]_vars

\* What the first failing check of Decode::new is for the bytes s and the
\* password pw, the checks taken in the order head, version, info chunk,
\* encryption header, password, key derivation.
FirstFailure(s, pw) ==
    LET n == 256 * s[5] + s[6]
        a == 7 + n
        R(k) == U32(256 * s[k] + s[k + 1], 256 * s[k + 2] + s[k + 3])
    IN IF Len(s) < 3 THEN "IO(UnexpectedEof)"
       ELSE IF SubSeq(s, 1, 3) # <<109, 101, 105>> THEN "InvalidHead"
       ELSE IF Len(s) < 4 THEN "IO(UnexpectedEof)"
       ELSE IF s[4] # 1 THEN "InvalidVersion"
       ELSE IF Len(s) < 6 THEN "IO(UnexpectedEof)"
       ELSE IF Len(s) < 6 + n THEN "IO(UnexpectedEof)"
       ELSE IF ~from_utf8_ok(SubSeq(s, 7, 6 + n)) THEN "Utf8"
       ELSE IF Len(s) < a THEN "IO(UnexpectedEof)"
       ELSE IF s[a] = 0 THEN (IF pw.some THEN "NoPasswordRequired" ELSE "none")
       ELSE IF s[a] # 1 THEN "InvalidEncryptMethod"
       ELSE IF Len(s) < a + 25 THEN "IO(UnexpectedEof)"
       ELSE IF ~pw.some THEN "PasswordRequired"
       ELSE IF ~ScryptParamsOk(s[a + 17], R(a + 18), R(a + 22)) THEN "InvalidScryptParams"
       ELSE "none"

\* C20: the error of Decode::new is that of the first failing check in the
\* order head, version, info chunk (I/O, then Utf8), encryption tag and
\* parameters (I/O, InvalidEncryptMethod), password (PasswordRequired,
\* NoPasswordRequired), key derivation (InvalidScryptParams); parameters
\* outside scrypt's domain and no password give PasswordRequired; a wrong
\* magic gives InvalidHead whatever follows.
C20_CheckOrder ==
    (decSt \in {"open", "failed"}) =>
        /\ decRes.err = FirstFailure(src, decRes.password)
        /\ (Len(src) >= 3 /\ SubSeq(src, 1, 3) # <<109, 101, 105>>) =>
               decRes.err = "InvalidHead"
        /\ (/\ Len(src) >= 32 /\ SubSeq(src, 1, 7) = <<109, 101, 105, 1, 0, 0, 1>>
            /\ SubSeq(src, 25, 28) = <<0, 0, 0, 0>>
            /\ ~decRes.password.some) => decRes.err = "PasswordRequired"

C20_Witness ==
    /\ decSt = "failed" /\ decRes.err = "PasswordRequired" /\ ~decRes.password.some
    /\ Len(src) = 36 /\ SubSeq(src, 1, 7) = <<109, 101, 105, 1, 0, 0, 1>>
    /\ SubSeq(src, 25, 28) = <<0, 0, 0, 0>>

\* Where the archive stood when the k-th write call had returned (k = 0:
\* when Encode::new had).
WrittenUpTo(k) == IF k = 0 THEN encRes.len ELSE written[k].to

\* C21: when an archive is decoded with the encoder's key (or none) by a
\* caller that calls read_file once after each File entry and never after a
\* Directory entry, the decoder stands, after the k-th entry, where the
\* archive ended when the k-th write call returned; every byte read_path
\* takes as a type tag was written by FileType::write, and no call returns
\* FileType(byte).
C21_StreamAlignment ==
    (/\ decSt = "open" /\ encSt = "open" /\ Untampered /\ AllWritesOk
     /\ dec.cipher = enc.cipher) =>
        /\ PosAfterNew = encRes.len
        /\ calls # <<>> => pos = Last(calls).to
        /\ \A j \in 1..Len(calls) :
              LET c == calls[j]
                  k == EntryNo(j)
              IN /\ c.err # "FileType"
                 /\ c.op = "read_path" => c.from = WrittenUpTo(EntryNo(j - 1))
                 /\ IsNone(c) => c.from = Len(wire) /\ EntryNo(j - 1) = Len(written)
                 /\ IsSome(c) =>
                       /\ k <= Len(written) /\ c.from = written[k].from
                       /\ <<src[c.from + 1]>> = FileType_write(written[k].type)
                       /\ c.type = "Directory" => c.to = written[k].to
                       /\ c.type = "File" => c.to = written[k].body
                 /\ (c.op = "read_file" /\ c.err = "none") =>
                       /\ IsSome(calls[j - 1]) /\ calls[j - 1].type = "File"
                       /\ c.to = written[k].to

C21_Witness ==
    /\ decSt = "open" /\ encSt = "open" /\ Untampered /\ SameKey
    /\ Len(written) = 2 /\ written[1].type = "File" /\ written[2].type = "Directory"
    /\ written[1].data = <<97, 97, 97, 97>> /\ enc.buf_size = 2
    /\ Len(calls) = 4 /\ IsNone(calls[4]) /\ calls[2].to = written[1].to
    /\ calls[3].to = written[2].to /\ pos = Len(wire)

(***************************************************************************)
(* The decoder over arbitrary bytes, driven by a caller that loops         *)
(***************************************************************************)
\* bytes after the preamble
MaxTail == 6

TailBytes == {0, 1, 2}

\* A preamble Decode::new accepts, then any bytes.
LoopSources ==
    {pre \o tail :
        pre \in {HEAD \o VERSION \o <<0, 0>> \o write_scrypt_params(NoParams),
                 HEAD \o VERSION \o <<0, 0>>
                   \o write_scrypt_params(ScryptParams_default(Salt0))},
        tail \in UNION {[1..n -> TailBytes] : n \in 0..MaxTail}}

DomLoop ==
    [news     |-> {},
     paths    |-> {},
     contents |-> {},
     serrs    |-> {},
     decpws   |-> {NoPassword, Password(PwP, NoParams)},
     entries  |-> 0]

\* The reader handed to Decode::new holds a finite sequence of bytes.
Feed ==
    /\ decSt = "none" /\ encSt = "none"
    /\ \E f \in LoopSources :
         /\ src' = f
         /\ tamper' = [kind |-> "fed", at |-> Len(f), bit |-> 0]
    /\ decSt' = "ready"
    /\ UNCHANGED <<pos, dec, decRes, calls>>
    /\ UNCHANGED encVars

NextLoop ==
    \/ Feed
    \/ DecodeNew(DomLoop)
    \/ ReadPath(FALSE)
    \/ ReadFile(FALSE)

\* Once it has a decoder the caller goes on as long as it has a call to make.
SpecLoop ==
    /\ Init /\ [][NextLoop]_vars
    /\ WF_vars(ReadPath(FALSE))
    /\ WF_vars(ReadFile(FALSE))

\* Every call ends within the source; a read_path that returns an entry has
\* consumed at least its type tag and a length; an iteration of the loop of
\* read_file, wherever it starts, ends the loop or consumes at least 2
\* bytes; the caller makes at most two calls per 3 bytes of source and one
\* more.
DecoderProgress ==
    decSt = "open" =>
        /\ \A j \in 1..Len(calls) :
              /\ calls[j].from <= calls[j].to /\ calls[j].to <= Len(src)
              /\ IsSome(calls[j]) => calls[j].to >= calls[j].from + 3
        /\ \A ps \in 0..Len(src) :
              IF dec.cipher.some
              THEN LET c == read_encrypt_chunk(src, ps, dec.cipher) IN
                   /\ c.pos <= Len(src)
                   /\ (c.err = "none" /\ c.some) => c.pos >= ps + 2
              ELSE LET c == read_chunk(src, ps) IN
                   /\ c.pos <= Len(src)
                   /\ (c.err = "none" /\ c.val # <<>>) => c.pos >= ps + 2
        /\ Len(calls) <= 2 * ((Len(src) - PosAfterNew) \div 3) + 1

CallerDone == decSt = "open" /\ Stopped

\* C22: on every finite source each read_path and read_file call returns
\* within the source, each iteration of read_file consumes at least 2 bytes
\* or ends the loop, and the caller that loops until the first None or
\* error stops after finitely many calls.
C22_DecodingTerminates == []DecoderProgress /\ (decSt = "open" ~> []CallerDone)

C22_Witness ==
    /\ decSt = "open" /\ ~dec.cipher.some
    /\ SubSeq(src, 8, Len(src)) = <<1, 0, 0, 0, 0, 2>>
    /\ Len(calls) = 3 /\ IsSome(calls[1]) /\ calls[2].op = "read_file"
    /\ calls[2].err = "none" /\ calls[3].err = "FileType" /\ Stopped

\* C23: once Decode::new has succeeded, the loop of decompress_file calls
\* read_file exactly after a read_path that returned a File entry, as the
\* very next call and once; it never calls read_file after a Directory
\* entry; it makes no call after the first None or the first error, and
\* none when Decode::new failed.
C23_ExtractorProtocol ==
    /\ decSt # "open" => calls = <<>>
    /\ \A j \in 1..Len(calls) :
          /\ calls[j].op = "read_file" <=>
                (j > 1 /\ IsSome(calls[j - 1]) /\ calls[j - 1].type = "File")
          /\ j < Len(calls) => (calls[j].err = "none" /\ ~IsNone(calls[j]))

C23_Witness ==
    /\ decSt = "open" /\ Len(calls) = 4
    /\ IsSome(calls[1]) /\ calls[1].type = "File" /\ calls[2].op = "read_file"
    /\ IsSome(calls[3]) /\ calls[3].type = "Directory"
    /\ IsNone(calls[4]) /\ Stopped /\ tamper.kind = "cut"

(***************************************************************************)
(* The encoder on a sink whose write can be short.  Every byte reaches the *)
(* sink through `w.write(buf)`, whose count of accepted bytes the encoder  *)
(* does not look at; the operators below list the buffers of those calls.  *)
(***************************************************************************)
\* write_chunk: the length, then the chunk
write_chunk_calls(buf) ==
    IF Len(buf) > U16_MAX THEN <<>> ELSE <<u16_to_be_bytes(Len(buf)), buf>>

\* write_scrypt_params
write_scrypt_params_calls(params) ==
    IF params.some
    THEN <<ENCRYPT_AES_256_GCM, params.salt, <<params.n>>, u32_to_be_bytes(params.r),
           u32_to_be_bytes(params.p)>>
    ELSE <<ENCRYPT_NONE>>

\* write_encrypt_chunk
write_encrypt_chunk_calls(ciph, nonce, buf) ==
    IF buf = <<>> THEN write_chunk_calls(<<>>)
    ELSE LET wc == write_chunk_calls(Aead_encrypt(ciph.key, nonce, buf)) IN
         IF wc = <<>> THEN <<>> ELSE wc \o <<nonce>>

put_chunk_calls(ciph, nonce, buf) ==
    IF ciph.some THEN write_encrypt_chunk_calls(ciph, nonce, buf) ELSE write_chunk_calls(buf)

\* Encode::new
Encode_new_calls(info, password) ==
    <<write_head, write_version>> \o write_chunk_calls(info)
        \o (IF Len(info) > U16_MAX THEN <<>> ELSE write_scrypt_params_calls(password.params))

\* Encode::write_directory
write_directory_calls(ciph, p, ns) ==
    <<FileType_write("Directory")>> \o put_chunk_calls(ciph, IF ns = <<>> THEN <<>> ELSE ns[1], p)

\* The `loop` of Encode::write_file from the i-th read on
RECURSIVE write_file_loop_calls(_, _, _, _)
write_file_loop_calls(ciph, reads, i, ns) ==
    LET rd == reads[i]
        nonce == IF ns = <<>> THEN <<>> ELSE ns[1]
    IN IF rd.err = "none" /\ rd.data # <<>>
       THEN LET w == put_chunk_calls(ciph, nonce, rd.data) IN
            IF w = <<>> THEN <<>>
            ELSE w \o write_file_loop_calls(ciph, reads, i + 1,
                                            IF ns = <<>> THEN <<>> ELSE Tail(ns))
       ELSE IF rd.err \in {"none", "UnexpectedEof"} THEN put_chunk_calls(ciph, <<>>, <<>>)
       ELSE <<>>

\* Encode::write_file
write_file_calls(ciph, p, reads, ns) ==
    LET w == put_chunk_calls(ciph, IF ns = <<>> THEN <<>> ELSE ns[1], p) IN
    <<FileType_write("File")>>
      \o (IF w = <<>> THEN <<>>
          ELSE w \o write_file_loop_calls(ciph, reads, 1,
                                          IF ciph.some /\ p # <<>> THEN Tail(ns) ELSE ns))

\* Write::write on a sink that takes at most lim bytes per call: the bytes
\* it accepts.
Sink_write(buf, lim) == SubSeq(buf, 1, Min(lim, Len(buf)))

\* What the sink holds after the calls bufs.
RECURSIVE Sink_accepts(_, _)
Sink_accepts(bufs, lim) ==
    IF bufs = <<>> THEN <<>>
    ELSE Sink_write(Head(bufs), lim) \o Sink_accepts(Tail(bufs), lim)

SinkArgs(info, pw, bs, sd, lim) ==
    [info |-> info, password |-> pw, buf_size |-> bs, seed |-> sd, limit |-> lim]

\* The sinks take 1 or 2 bytes per call, or all they are given.
DomSink ==
    [news     |-> {SinkArgs(info, pw, 2, 1, lim) :
                      info \in {<<>>, <<195, 169>>},
                      pw \in {NoPassword, Password(PwP, ScryptParams_default(Salt0))},
                      lim \in {1, 2, U16_MAX}},
     paths    |-> {<<100>>, <<100, 47, 102>>},
     contents |-> {<<>>, <<97, 97, 97, 97>>},
     serrs    |-> {"none"},
     decpws   |-> {NoPassword},
     entries  |-> MaxEntries]

\* The record of one write call on such a sink: produced is what the
\* encoder handed to the sink.
SinkRec(type, p, r) ==
    [type |-> type, path |-> p, err |-> r.err, ret |-> r.ret, produced |-> r.out]

\* Encode::new(writer, info, password, params)
EncodeNewOnSink(D) ==
    /\ encSt = "none" /\ decSt = "none"
    /\ \E a \in D.news :
         LET r == Encode_new(a.info, a.password, a.buf_size) IN
         /\ wire' = wire \o Sink_accepts(Encode_new_calls(a.info, a.password), a.limit)
         /\ encSt' = IF r.err = "none" THEN "open" ELSE "failed"
         /\ enc' = [cipher |-> r.cipher, buf_size |-> a.buf_size]
         /\ encRes' = [err |-> r.err, args |-> a, len |-> Len(r.out)]
    /\ UNCHANGED <<written, sealed, nonceLog>>
    /\ UNCHANGED decVars

\* The effect of a write_* call that returned r after the calls bufs.
WroteOnSink(rec, r, bufs) ==
    /\ wire' = wire \o Sink_accepts(bufs, encRes.args.limit)
    /\ written' = Append(written, rec)
    /\ sealed' = sealed \cup SealSet(r.seals)
    /\ nonceLog' = nonceLog \o NonceSeq(r.seals)
    /\ UNCHANGED <<encSt, enc, encRes>>
    /\ UNCHANGED decVars

\* encode.write_directory(p)
WriteDirectoryOnSink(D) ==
    /\ encSt = "open" /\ decSt = "none" /\ Len(written) < D.entries
    /\ \E p \in D.paths :
         LET ns == DrawNonces(encRes.args.seed, Len(nonceLog),
                              NoncesNeeded(enc.cipher, p, <<>>))
             r == write_directory(enc.cipher, p, ns)
         IN WroteOnSink(SinkRec("Directory", p, r), r,
                        write_directory_calls(enc.cipher, p, ns))

\* encode.write_file(p, reader)
WriteFileOnSink(D) ==
    /\ encSt = "open" /\ decSt = "none" /\ Len(written) < D.entries
    /\ \E p \in D.paths, b \in D.contents :
       \E reads \in CompressorReads(b, "none", Len(b), enc.buf_size) :
         LET ns == DrawNonces(encRes.args.seed, Len(nonceLog),
                              NoncesNeeded(enc.cipher, p, reads))
             r == write_file(enc.cipher, p, reads, ns)
         IN WroteOnSink(SinkRec("File", p, r), r,
                        write_file_calls(enc.cipher, p, reads, ns))

NextSink ==
    \/ EncodeNewOnSink(DomSink)
    \/ WriteDirectoryOnSink(DomSink)
    \/ WriteFileOnSink(DomSink)

SpecSink == Init /\ [][NextSink]_vars

\* What the encoder produced in its first k write calls.
RECURSIVE ProducedUpTo(_)
ProducedUpTo(k) == IF k = 0 THEN <<>> ELSE ProducedUpTo(k - 1) \o written[k].produced

\* C24: when Encode::new and the write calls have returned Ok, the sink
\* holds every byte they produced, in order, also when its write takes
\* fewer bytes than it is given.
C24_NoByteLost ==
    (encSt = "open" /\ AllWritesOk) =>
        wire = Encode_new(encRes.args.info, encRes.args.password, encRes.args.buf_size).out
                 \o ProducedUpTo(Len(written))

(***************************************************************************)
(* decompress_file and the file system.  A path is a sequence of bytes;    *)
(* its components are what stands between the separators.  What the       *)
(* extractor creates follows from the entries read_path returned: for each *)
(* one, create_dir_all or File::create at root.join(path).                 *)
(***************************************************************************)
SLASH == 47

DOT == 46

\* The output directory: "out"
OutputRoot == <<111, 117, 116>>

\* std::path components of p: the non-empty pieces between separators
RECURSIVE Path_components(_, _)
Path_components(p, cur) ==
    IF p = <<>> THEN (IF cur = <<>> THEN <<>> ELSE <<cur>>)
    ELSE IF Head(p) = SLASH
    THEN (IF cur = <<>> THEN <<>> ELSE <<cur>>) \o Path_components(Tail(p), <<>>)
    ELSE Path_components(Tail(p), Append(cur, Head(p)))

Path_is_absolute(p) == p # <<>> /\ p[1] = SLASH

\* PathBuf::join: an absolute argument replaces the base
Path_join(base, p) ==
    IF Path_is_absolute(p) THEN p
    ELSE IF p = <<>> THEN base \o <<SLASH>>
    ELSE base \o <<SLASH>> \o p

\* The place the file system makes of a list of components: "." stays,
\* ".." goes to the parent; acc is the place reached so far.
RECURSIVE Resolve(_, _, _)
Resolve(comps, abs, acc) ==
    IF comps = <<>> THEN acc
    ELSE LET c == Head(comps) IN
         IF c = <<DOT>> THEN Resolve(Tail(comps), abs, acc)
         ELSE IF c = <<DOT, DOT>>
         THEN IF acc # <<>> /\ acc[Len(acc)] # <<DOT, DOT>>
              THEN Resolve(Tail(comps), abs, SubSeq(acc, 1, Len(acc) - 1))
              ELSE IF abs THEN Resolve(Tail(comps), abs, acc)
              ELSE Resolve(Tail(comps), abs, Append(acc, c))
         ELSE Resolve(Tail(comps), abs, Append(acc, c))

\* The location of a path: whether it starts at the file system's root, and
\* the components from there (or from the working directory).
Location(p) ==
    [abs |-> Path_is_absolute(p),
     at |-> Resolve(Path_components(p, <<>>), Path_is_absolute(p), <<>>)]

\* `let path = root.join(path)`: where decompress_file puts an entry
ExtractTarget(p) == Location(Path_join(OutputRoot, p))

DomExtract ==
    [news     |-> {NewArgs(<<>>, NoPassword, DEFAULT_BUF_SIZE, 1),
                   NewArgs(<<>>, Password(PwP, ScryptParams_default(Salt0)),
                           DEFAULT_BUF_SIZE, 1)},
     paths    |-> {<<100>>, <<100, SLASH, DOT, DOT, SLASH, 102>>,
                   <<SLASH, 120>>, <<DOT, DOT, SLASH, 120>>},
     contents |-> {<<>>},
     serrs    |-> {"none"},
     decpws   |-> {NoPassword, Password(PwP, NoParams)},
     entries  |-> MaxEntries]

NextExtract ==
    \/ EncodeNew(DomExtract)
    \/ WriteDirectory(DomExtract)
    \/ WriteFile(DomExtract)
    \/ Present
    \/ DecodeNew(DomExtract)
    \/ ReadPath(FALSE)
    \/ ReadFile(FALSE)

SpecExtract == Init /\ [][NextExtract]_vars

\* loc is the output directory or lies below it.
InsideRoot(loc) ==
    LET root == Location(OutputRoot) IN
    /\ loc.abs = root.abs
    /\ Len(loc.at) >= Len(root.at)
    /\ SubSeq(loc.at, 1, Len(root.at)) = root.at

\* C25: whatever path read_path returns, absolute paths and paths with ".."
\* included, decompress_file creates the directory or file at or below the
\* output directory.
C25_ExtractionInsideRoot ==
    \A j \in 1..Len(calls) : IsSome(calls[j]) => InsideRoot(ExtractTarget(calls[j].path))

=============================================================================
